---- MODULE Spec2Model ----
(***************************************************************************)
(* The mock debug runtimes: the stepping engine and its breakpoint and     *)
(* exception state machine, as implemented three times in the repository:  *)
(*   "cs"  RuntimeEngine (C#),    src/unnamed/part_000                     *)
(*   "go"  Engine (Go),           src/mock-go/internal/engine/engine.go    *)
(*   "ts"  MockRuntime (TS),      src/mock-ts/src/runtime.ts (+ cli.ts)    *)
(* One behaviour of the model is one engine instance of one of the three   *)
(* implementations, driven by a sequence of engine operations.             *)
(*                                                                         *)
(* Text is modelled at token level.  A line is a run of leading blanks     *)
(* followed by tokens separated by single blanks; the regular expressions  *)
(* of the engines are modelled by what they match on each kind of token.   *)
(***************************************************************************)
EXTENDS Integers, Sequences, FiniteSets, TLC

\* ------------------------------------------------------------------ bounds
MaxBpId == 4          \* SetBreakpoints is not taken once the id counter passed this
MaxColumn == 2        \* StepIn is not taken once the column passed this
MaxBpLines == 2       \* the longest list of lines given to SetBreakpoints

\* -------------------------------------------------------------- vocabulary
Impls == {"cs", "go", "ts"}

LogFuncs == {"log", "prio", "out", "err"}

Tok(k, v) == [k |-> k, v |-> v]

\* The text of a token.
TokText(t) ==
    CASE t.k = "word"      -> t.v
      [] t.k = "read"      -> "$" \o t.v
      [] t.k = "write"     -> "$" \o t.v \o "=1"
      [] t.k \in LogFuncs  -> t.k \o "(" \o t.v \o ")"
      [] t.k = "exception" -> "exception(" \o t.v \o ")"
      [] t.k = "sym"       -> t.v

\* The maximal runs of letters of a token, with their offset in the token:
\* what the word regex [a-z]+ (ignoring case) matches on it.
TokWords(t) ==
    CASE t.k = "word"      -> << [name |-> t.v, off |-> 0] >>
      [] t.k = "read"      -> << [name |-> t.v, off |-> 1] >>
      [] t.k = "write"     -> << [name |-> t.v, off |-> 1] >>
      [] t.k \in LogFuncs  -> << [name |-> t.k, off |-> 0],
                                 [name |-> t.v, off |-> Len(t.k) + 1] >>
      [] t.k = "exception" -> << [name |-> "exception", off |-> 0],
                                 [name |-> t.v, off |-> Len("exception(")] >>
      [] t.k = "sym"       -> << >>

\* A line: ws leading blanks, then the tokens, one blank between two tokens.
Line(ws, toks) == [ws |-> ws, toks |-> toks]

RECURSIVE TokOffset(_, _)
\* Offset of token i in the trimmed text of the line.
TokOffset(toks, i) ==
    IF i = 1 THEN 0 ELSE TokOffset(toks, i - 1) + Len(TokText(toks[i - 1])) + 1

TrimmedLength(ln) ==
    IF ln.toks = << >> THEN 0
    ELSE TokOffset(ln.toks, Len(ln.toks)) + Len(TokText(ln.toks[Len(ln.toks)]))

\* string.Length of the untrimmed line
LineLength(ln) == ln.ws + TrimmedLength(ln)

\* string.IsNullOrWhiteSpace(line), strings.TrimSpace(line) == "", line.trim().length == 0
IsBlank(ln) == ln.toks = << >>

EmptyLine == Line(0, << >>)

\* ---------------------------------------------------------------- documents
\* A file's text is the sequence of segments between its line terminators
\* (what text.split(/\r?\n/) yields): a text that ends with a terminator has
\* an empty last segment, and the empty file is one empty segment.
DocEmpty == << EmptyLine >>

DocScenario ==
    << EmptyLine,
       Line(0, << Tok("log", "hello") >>),
       Line(0, << Tok("write", "x") >>),
       Line(0, << Tok("read", "x") >>),
       Line(0, << Tok("exception", "Err") >>) >>

DocMixed ==
    << Line(0, << Tok("write", "x"), Tok("prio", "p") >>),
       Line(2, << >>),
       Line(0, << Tok("read", "x"), Tok("out", "a"), Tok("err", "b"),
                  Tok("word", "exception") >>),
       Line(0, << Tok("sym", "--") >>),
       EmptyLine >>

Docs == {DocEmpty, DocScenario, DocMixed}

Paths == {"/a/x.md", "/b/x.md", "/a/e.md"}

\* Path.GetFileName / filepath.Base
GetFileName(p) ==
    CASE p = "/a/x.md" -> "x.md"
      [] p = "/b/x.md" -> "x.md"
      [] OTHER         -> p

VarNames == {"x"}
ExceptionNames == {"Err", "Oops"}

\* -------------------------------------------------------------------- state
VARIABLES
    impl,                    \* which of the three engines this instance is
    files,                   \* the file system: path -> text (a document)
    sourceFile,              \* "" before any load
    sourceLines,
    currentLine,
    currentColumn,           \* {} when unset, {c} when set
    instructions, starts, ends,
    instruction,
    paused,
    bps,                     \* path -> list object (0: no entry)
    bpLists,                 \* list object -> sequence of breakpoints
    bpKeys,                  \* the keys of bps in insertion order
    nextBpId,
    instructionBreakpoints,
    breakAddresses,          \* name -> "" (no entry) | "read" | "write" | "read write"
    namedException,          \* {} or {name}
    otherExceptions,
    variables,               \* the names seen
    locals,                  \* the names holding a value
    events,                  \* the events emitted by the last operation
    raised,                  \* the last operation raised
    result,                  \* what the last operation returned
    lastOp,                  \* the last operation and its arguments
    peers,                   \* one engine of each implementation, all three
                             \* driven by the same calls (side-by-side runs)
    host,                    \* the command-line host around the engine: the
                             \* connection, the request read and not yet
                             \* handled, the messages written since it was
                             \* sent, and the Continue calls started beside
                             \* the dispatcher
    hist                     \* history: the data-breakpoint requests made so
                             \* far, the paused flag before the last call, and
                             \* the parity of the number of calls, which tells
                             \* a call that changes nothing from no call

vars == << impl, files, sourceFile, sourceLines, currentLine, currentColumn,
           instructions, starts, ends, instruction, paused, bps, bpLists, bpKeys,
           nextBpId, instructionBreakpoints, breakAddresses, namedException,
           otherExceptions, variables, locals, events, raised, result, lastOp, peers,
           host, hist >>

\* The engine's fields as one record, so that a method is an operator from
\* record to record; out collects the events the method emits, ret is the
\* method's return value, raised tells that it threw.
Engine ==
    [ sourceFile |-> sourceFile, sourceLines |-> sourceLines,
      currentLine |-> currentLine, currentColumn |-> currentColumn,
      instructions |-> instructions, starts |-> starts, ends |-> ends,
      instruction |-> instruction, paused |-> paused,
      bps |-> bps, bpLists |-> bpLists, bpKeys |-> bpKeys, nextBpId |-> nextBpId,
      instructionBreakpoints |-> instructionBreakpoints,
      breakAddresses |-> breakAddresses,
      namedException |-> namedException, otherExceptions |-> otherExceptions,
      variables |-> variables, locals |-> locals,
      out |-> << >>, ret |-> FALSE, raised |-> FALSE ]

\* For each name: 0, then 1 once SetDataBreakpoint(name, "read") was called,
\* then 2 once SetDataBreakpoint(name, "write") was called after it, and 0
\* again after ClearAllDataBreakpoints.
ReadThenWrite(h, op) ==
    IF op.name = "ClearAllDataBreakpoints" THEN [n \in DOMAIN h |-> 0]
    ELSE IF op.name = "SetDataBreakpoint"
    THEN [n \in DOMAIN h |->
            IF n # op.args[1] THEN h[n]
            ELSE IF h[n] = 0 /\ op.args[2] = "read" THEN 1
            ELSE IF h[n] = 1 /\ op.args[2] = "write" THEN 2
            ELSE h[n]]
    ELSE h

\* The engine after a call, and what the call emitted and returned.
Store(e, op) ==
    /\ sourceFile' = e.sourceFile
    /\ sourceLines' = e.sourceLines
    /\ currentLine' = e.currentLine
    /\ currentColumn' = e.currentColumn
    /\ instructions' = e.instructions
    /\ starts' = e.starts
    /\ ends' = e.ends
    /\ instruction' = e.instruction
    /\ paused' = e.paused
    /\ bps' = e.bps
    /\ bpLists' = e.bpLists
    /\ bpKeys' = e.bpKeys
    /\ nextBpId' = e.nextBpId
    /\ instructionBreakpoints' = e.instructionBreakpoints
    /\ breakAddresses' = e.breakAddresses
    /\ namedException' = e.namedException
    /\ otherExceptions' = e.otherExceptions
    /\ variables' = e.variables
    /\ locals' = e.locals
    /\ events' = e.out
    /\ raised' = e.raised
    /\ result' = e.ret
    /\ lastOp' = op
    /\ hist' = [readThenWrite |-> ReadThenWrite(hist.readThenWrite, op),
                pausedBefore |-> paused,
                tick |-> 1 - hist.tick]
    /\ UNCHANGED << impl, files >>

\* A call made on the engine directly.
Commit(e, op) == Store(e, op) /\ UNCHANGED << peers, host >>

\* ------------------------------------------------------------------- events
\* line, column and exception are {} when the event carries none, else {value}
StopEv(reason, line, column, exception) ==
    [type |-> "stopped", reason |-> reason, line |-> {line}, column |-> column,
     exception |-> exception]

\* sendEvent('stopOnEntry'): a stop that carries no line
StopNoLineEv(reason) ==
    [type |-> "stopped", reason |-> reason, line |-> {}, column |-> {}, exception |-> {}]

OutputEv(category, text, line, column) ==
    [type |-> "output", category |-> category, text |-> text, line |-> line,
     column |-> column]

ValidatedEv(id, line, verified) ==
    [type |-> "breakpointValidated", id |-> id, line |-> line, verified |-> verified]

EndEv == [type |-> "terminated"]

Emit(e, ev) == [e EXCEPT !.out = Append(@, ev)]

Raise(e) == [e EXCEPT !.raised = TRUE]

Op(name, args) == [name |-> name, args |-> args]

\* ------------------------------------------------------------- SourceIndex
\* File.ReadAllLines and bufio.Scanner: a segment per line, no segment for
\* the empty rest after the last terminator.
ReadAllLines(doc) ==
    IF doc[Len(doc)] = Line(0, << >>) THEN SubSeq(doc, 1, Len(doc) - 1) ELSE doc

\* text.split(/\r?\n/): every segment
SplitSegments(doc) == doc

RECURSIVE WordsFrom(_, _, _)
WordsFrom(l, ln, i) ==
    IF i > Len(ln.toks) THEN << >>
    ELSE [ k \in 1..Len(TokWords(ln.toks[i])) |->
             [ name |-> TokWords(ln.toks[i])[k].name, line |-> l,
               index |-> ln.ws + TokOffset(ln.toks, i) + TokWords(ln.toks[i])[k].off ] ]
         \o WordsFrom(l, ln, i + 1)

\* GetWords(l, line): the words of a line, left to right (zero-based line l)
GetWords(l, ln) == WordsFrom(l, ln, 1)

RECURSIVE BuildInstructions(_, _, _)
\* The loop with ends[l] taken before the words of the line are appended.
BuildInstructionsEndsEarly(lines, l, acc) ==
    IF l >= Len(lines) THEN acc
    ELSE LET w == GetWords(l, lines[l + 1]) IN
         BuildInstructions(lines, l + 1,
            [ instructions |-> acc.instructions \o w,
              starts |-> Append(acc.starts, Len(acc.instructions)),
              ends |-> Append(acc.ends, Len(acc.instructions)) ])

\* The loop of LoadSource over the lines l.. (zero-based) of the document:
\* acc holds instructions, starts and ends built so far.
BuildInstructions(lines, l, acc) ==
    IF l >= Len(lines) THEN acc
    ELSE LET w == GetWords(l, lines[l + 1]) IN
         BuildInstructions(lines, l + 1,
            [ instructions |-> acc.instructions \o w,
              starts |-> Append(acc.starts, Len(acc.instructions)),
              ends |-> Append(acc.ends, Len(acc.instructions) + Len(w)) ])

EmptyIndex == [instructions |-> << >>, starts |-> << >>, ends |-> << >>]

\* Zero-based access to the engine's arrays.
At(seq, i) == seq[i + 1]
InRange(seq, i) == i >= 0 /\ i < Len(seq)

\* --------------------------------------------------------------------- Init
NoRequest == Op("", << >>)

\* RuntimeBase after its constructor: nothing written (outbox), no request
\* pending, no continuation of an await queued (ready), an empty breakpoint
\* cache; received counts the events read, emitted lists what was emitted by
\* the number of the runtime event it stands for, ids lists the ids that
\* setBreakPoint returned for the lines still set.
NoProxy ==
    [phase |-> "new", sent |-> 0, outbox |-> << >>, pending |-> << >>, ready |-> << >>,
     received |-> 0, emitted |-> << >>,
     breakpoints |-> [p \in Paths |-> << >>], ids |-> [p \in Paths |-> << >>]]

\* No host process yet.
NoHost ==
    [mode |-> "", program |-> "", stopOnEntry |-> FALSE, connected |-> FALSE,
     request |-> NoRequest, reply |-> << >>, conts |-> << >>, proxy |-> NoProxy]

NoBreakAddresses == [n \in VarNames |-> ""]

InitialFiles ==
    [p \in Paths |-> CASE p = "/a/x.md" -> DocScenario
                       [] p = "/b/x.md" -> DocMixed
                       [] OTHER         -> DocEmpty]

Init ==
    /\ impl \in Impls
    /\ files = InitialFiles
    /\ sourceFile = ""
    /\ sourceLines = << >>
    /\ currentLine = 0
    /\ currentColumn = {}
    /\ instructions = << >>
    /\ starts = << >>
    /\ ends = << >>
    /\ instruction = 0
    /\ paused = FALSE
    /\ bps = [p \in Paths |-> 0]
    /\ bpLists = [i \in 1..Cardinality(Paths) |-> << >>]
    /\ bpKeys = << >>
    /\ nextBpId = 1
    /\ instructionBreakpoints = {}
    /\ breakAddresses = NoBreakAddresses
    /\ namedException = {}
    /\ otherExceptions = FALSE
    /\ variables = {}
    /\ locals = {}
    /\ events = << >>
    /\ raised = FALSE
    /\ result = FALSE
    /\ lastOp = Op("new", << >>)
    /\ peers = [i \in Impls |-> Engine]
    /\ host = NoHost
    /\ hist = [readThenWrite |-> [n \in VarNames |-> 0], pausedBefore |-> FALSE,
               tick |-> 0]

\* ------------------------------------------------------- breakpoint registry
\* The registry maps a path to a list OBJECT: two keys may hold the same list
\* (RuntimeEngine.ReverifyBreakpointsForCurrentSource adds such an alias).
Slots == 1..Cardinality(Paths)
HasKey(e, p) == p \in Paths /\ e.bps[p] # 0
ListOf(e, p) == e.bpLists[e.bps[p]]

\* A list object no key refers to is garbage: forget its contents.
Collect(e) ==
    [e EXCEPT !.bpLists =
        [s \in Slots |-> IF \E p \in Paths : e.bps[p] = s THEN e.bpLists[s] ELSE << >>]]

\* The list of the path kept when the path has one, instead of a new list.
NewListKeep(e, path) ==
    IF HasKey(e, path) THEN e
    ELSE LET others == {e.bps[q] : q \in Paths \ {path}}
             slot == CHOOSE s \in Slots \ others : \A t \in Slots \ others : s <= t
         IN  [e EXCEPT !.bps[path] = slot,
                       !.bpLists[slot] = << >>,
                       !.bpKeys = Append(@, path)]

\* bps[path] = new List<Breakpoint>()
NewList(e, path) ==
    LET others == {e.bps[q] : q \in Paths \ {path}}
        slot == CHOOSE s \in Slots \ others : \A t \in Slots \ others : s <= t
    IN  [e EXCEPT !.bps[path] = slot,
                  !.bpLists[slot] = << >>,
                  !.bpKeys = IF HasKey(e, path) THEN @ ELSE Append(@, path)]

Clamp(x, lo, hi) == IF x < lo THEN lo ELSE IF x > hi THEN hi ELSE x

\* ===================================================== RuntimeEngine (C#)
VerifyLine(e, path, line) ==
    IF Len(e.sourceLines) = 0 THEN FALSE
    ELSE ~IsBlank(At(e.sourceLines, Clamp(line, 0, Len(e.sourceLines) - 1)))

RECURSIVE SetBreakpointsLoop(_, _, _, _)
SetBreakpointsLoop(e, path, lines, i) ==
    IF i > Len(lines) THEN e
    ELSE LET l == lines[i]
             verified == VerifyLine(e, path, l)
             bp == [id |-> e.nextBpId, line |-> l, verified |-> verified]
             e1 == [e EXCEPT !.nextBpId = @ + 1,
                             !.bpLists[e.bps[path]] = Append(@, bp)]
         IN  SetBreakpointsLoop(Emit(e1, ValidatedEv(bp.id, l, verified)), path, lines, i + 1)

\* SetBreakpoints numbering the breakpoints of each call from 1
SetBreakpointsFromOne(e, path, lines) ==
    Collect(SetBreakpointsLoop([NewList(e, path) EXCEPT !.nextBpId = 1], path, lines, 1))

SetBreakpoints(e, path, lines) ==
    Collect(SetBreakpointsLoop(NewList(e, path), path, lines, 1))

RECURSIVE ReverifyList(_, _, _)
\* the inner loop of ReverifyBreakpointsForCurrentSource over list object slot
ReverifyList(e, slot, i) ==
    IF i > Len(e.bpLists[slot]) THEN e
    ELSE LET bp == e.bpLists[slot][i]
             verified == VerifyLine(e, e.sourceFile, bp.line)
         IN  IF bp.verified # verified
             THEN ReverifyList(
                    Emit([e EXCEPT !.bpLists[slot][i].verified = verified],
                         ValidatedEv(bp.id, bp.line, verified)), slot, i + 1)
             ELSE ReverifyList(e, slot, i + 1)

RECURSIVE ReverifyKeys(_, _, _)
\* the outer loop, over the snapshot keys = bps.ToArray()
ReverifyKeys(e, keys, k) ==
    IF k > Len(keys) THEN e
    ELSE LET key == keys[k] IN
         IF key = e.sourceFile \/ GetFileName(key) = GetFileName(e.sourceFile)
         THEN LET e1 == ReverifyList(e, e.bps[key], 1)
                  \* bps.TryAdd(sourceFile, list)
                  e2 == IF HasKey(e1, e1.sourceFile) THEN e1
                        ELSE [e1 EXCEPT !.bps[e1.sourceFile] = e1.bps[key],
                                        !.bpKeys = Append(@, e1.sourceFile)]
              IN  ReverifyKeys(e2, keys, k + 1)
         ELSE ReverifyKeys(e, keys, k + 1)

ReverifyBreakpointsForCurrentSource(e) ==
    IF e.sourceFile = "" \/ Len(e.sourceLines) = 0 THEN e
    ELSE ReverifyKeys(e, e.bpKeys, 1)

\* The text of an unreadable file.
NoFile == << >>

LoadSourceAsync(e, fs, path) ==
    LET e1 == [e EXCEPT !.sourceFile = path] IN
    IF fs[path] = NoFile THEN Raise(e1)
    ELSE LET lines == ReadAllLines(fs[path])
             ix == BuildInstructions(lines, 0, EmptyIndex)
             e2 == [e1 EXCEPT !.sourceLines = lines,
                              !.currentLine = 0,
                              !.currentColumn = {},
                              !.instructions = ix.instructions,
                              !.starts = ix.starts,
                              !.ends = ix.ends,
                              !.instruction = IF Len(ix.starts) > 0 THEN ix.starts[1] ELSE 0]
         IN  ReverifyBreakpointsForCurrentSource(e2)

\* string.Contains on the access modes
Contains(s, sub) ==
    \/ sub = ""
    \/ s = sub
    \/ s = "read write" /\ sub \in {"read", "write"}

RECURSIVE ScanForward(_, _, _)
\* while (instruction < endForLine) { instruction++; if (breakpoint) stop }
ScanForward(e, line, endForLine) ==
    IF e.instruction < endForLine
    THEN LET e1 == [e EXCEPT !.instruction = @ + 1] IN
         IF e1.instruction \in e1.instructionBreakpoints
         THEN [Emit(e1, StopEv("instructionBreakpoint", line, e1.currentColumn, {}))
                 EXCEPT !.ret = TRUE]
         ELSE ScanForward(e1, line, endForLine)
    ELSE [e EXCEPT !.ret = FALSE]

RECURSIVE ScanReverse(_, _, _)
\* while (instruction >= startForLine) { instruction--; if (breakpoint) stop }
ScanReverse(e, line, startForLine) ==
    IF e.instruction >= startForLine
    THEN LET e1 == [e EXCEPT !.instruction = @ - 1] IN
         IF e1.instruction \in e1.instructionBreakpoints
         THEN [Emit(e1, StopEv("instructionBreakpoint", line, e1.currentColumn, {}))
                 EXCEPT !.ret = TRUE]
         ELSE ScanReverse(e1, line, startForLine)
    ELSE [e EXCEPT !.ret = FALSE]

RECURSIVE VariableScanNoWrites(_, _, _, _)
\* The variable scan with assignments never classified as an access.
VariableScanNoWrites(e, line, toks, i) ==
    IF i > Len(toks) THEN [e EXCEPT !.ret = FALSE]
    ELSE LET t == toks[i] IN
         IF t.k \notin {"read", "write"} THEN VariableScanNoWrites(e, line, toks, i + 1)
         ELSE LET name == t.v
                  access == IF name \in e.variables /\ t.k = "read" THEN "read" ELSE ""
                  e1 == IF t.k = "write"
                        THEN [e EXCEPT !.variables = @ \cup {name},
                                       !.locals = @ \cup {name}]
                        ELSE e
              IN  IF /\ access # ""
                     /\ name \in VarNames
                     /\ e1.breakAddresses[name] # ""
                     /\ Contains(e1.breakAddresses[name], access)
                  THEN [Emit(e1, StopEv("dataBreakpoint", line, e1.currentColumn, {}))
                          EXCEPT !.ret = TRUE]
                  ELSE VariableScanNoWrites(e1, line, toks, i + 1)

RECURSIVE VariableScan(_, _, _, _)
\* foreach match of VariableReadWriteRegex: classify the access, record the
\* name, stop on a matching data breakpoint
VariableScan(e, line, toks, i) ==
    IF i > Len(toks) THEN [e EXCEPT !.ret = FALSE]
    ELSE LET t == toks[i] IN
         IF t.k \notin {"read", "write"} THEN VariableScan(e, line, toks, i + 1)
         ELSE LET name == t.v
                  access == IF name \in e.variables
                            THEN (IF t.k = "write" THEN "write" ELSE "read")
                            ELSE ""
                  e1 == IF t.k = "write"
                        THEN [e EXCEPT !.variables = @ \cup {name},
                                       !.locals = @ \cup {name}]
                        ELSE e
              IN  IF /\ access # ""
                     /\ name \in VarNames
                     /\ e1.breakAddresses[name] # ""
                     /\ Contains(e1.breakAddresses[name], access)
                  THEN [Emit(e1, StopEv("dataBreakpoint", line, e1.currentColumn, {}))
                          EXCEPT !.ret = TRUE]
                  ELSE VariableScan(e1, line, toks, i + 1)

RECURSIVE EmitOutputs(_, _, _, _)
\* foreach match of LogRegex: OnOutput(category, payload, file, line, index)
EmitOutputs(e, line, toks, i) ==
    IF i > Len(toks) THEN e
    ELSE IF toks[i].k \in LogFuncs
         THEN EmitOutputs(Emit(e, OutputEv(toks[i].k, toks[i].v, line, TokOffset(toks, i))),
                          line, toks, i + 1)
         ELSE EmitOutputs(e, line, toks, i + 1)

\* NamedExceptionRegex: the names of the exception(name) tokens of a line
NamedExceptions(toks) == {toks[i].v : i \in {j \in 1..Len(toks) : toks[j].k = "exception"}}

\* ExceptionRegex, \bexception\b: the line holds the word exception
HasExceptionWord(toks) ==
    \E i \in 1..Len(toks) : \E k \in 1..Len(TokWords(toks[i])) :
        TokWords(toks[i])[k].name = "exception"

\* The exception checks with the name comparison left out: any named filter
\* stops on any exception(name).
ExceptionCheckAnyName(e, line, toks) ==
    IF NamedExceptions(toks) # {}
    THEN LET ex == CHOOSE n \in NamedExceptions(toks) : TRUE IN
         IF e.namedException # {}
         THEN [Emit(e, StopEv("exception", line, e.currentColumn, {ex})) EXCEPT !.ret = TRUE]
         ELSE IF e.otherExceptions
         THEN [Emit(e, StopEv("exception", line, {}, {})) EXCEPT !.ret = TRUE]
         ELSE [e EXCEPT !.ret = FALSE]
    ELSE IF HasExceptionWord(toks) /\ e.otherExceptions
         THEN [Emit(e, StopEv("exception", line, e.currentColumn, {})) EXCEPT !.ret = TRUE]
         ELSE [e EXCEPT !.ret = FALSE]

\* The exception checks that end ExecuteLine.
ExceptionCheck(e, line, toks) ==
    IF NamedExceptions(toks) # {}
    THEN LET ex == CHOOSE n \in NamedExceptions(toks) : TRUE IN
         IF e.namedException # {} /\ e.namedException = {ex}
         THEN [Emit(e, StopEv("exception", line, e.currentColumn, {ex})) EXCEPT !.ret = TRUE]
         ELSE IF e.otherExceptions
         THEN [Emit(e, StopEv("exception", line, {}, {})) EXCEPT !.ret = TRUE]
         ELSE [e EXCEPT !.ret = FALSE]
    ELSE IF HasExceptionWord(toks) /\ e.otherExceptions
         THEN [Emit(e, StopEv("exception", line, e.currentColumn, {})) EXCEPT !.ret = TRUE]
         ELSE [e EXCEPT !.ret = FALSE]

\* ExecuteLine with the log-output loop left out
ExecuteLineSilent(e, line, reverse) ==
    LET endForLine == IF InRange(e.ends, line) THEN At(e.ends, line) ELSE 0
        startForLine == IF InRange(e.starts, line) THEN At(e.starts, line) ELSE 0
        e1 == IF reverse THEN ScanReverse(e, line, startForLine)
              ELSE ScanForward(e, line, endForLine)
    IN  IF e1.ret THEN e1
        ELSE IF Len(e1.sourceLines) = 0 THEN Raise(e1)
        ELSE LET toks == At(e1.sourceLines, Clamp(line, 0, Len(e1.sourceLines) - 1)).toks
                 e2 == VariableScan(e1, line, toks, 1)
             IN  IF e2.ret THEN e2
                 ELSE ExceptionCheck(e2, line, toks)

\* ExecuteLine with the log-output loop moved before the variable scan
ExecuteLineOutputsFirst(e, line, reverse) ==
    LET endForLine == IF InRange(e.ends, line) THEN At(e.ends, line) ELSE 0
        startForLine == IF InRange(e.starts, line) THEN At(e.starts, line) ELSE 0
        e1 == IF reverse THEN ScanReverse(e, line, startForLine)
              ELSE ScanForward(e, line, endForLine)
    IN  IF e1.ret THEN e1
        ELSE IF Len(e1.sourceLines) = 0 THEN Raise(e1)
        ELSE LET toks == At(e1.sourceLines, Clamp(line, 0, Len(e1.sourceLines) - 1)).toks
                 e2 == VariableScan(EmitOutputs(e1, line, toks, 1), line, toks, 1)
             IN  IF e2.ret THEN e2
                 ELSE ExceptionCheck(e2, line, toks)

ExecuteLine(e, line, reverse) ==
    LET endForLine == IF InRange(e.ends, line) THEN At(e.ends, line) ELSE 0
        startForLine == IF InRange(e.starts, line) THEN At(e.starts, line) ELSE 0
        e1 == IF reverse THEN ScanReverse(e, line, startForLine)
              ELSE ScanForward(e, line, endForLine)
    IN  IF e1.ret THEN e1
        \* GetLine: Math.Clamp(line, 0, -1) throws on an empty document
        ELSE IF Len(e1.sourceLines) = 0 THEN Raise(e1)
        ELSE LET toks == At(e1.sourceLines, Clamp(line, 0, Len(e1.sourceLines) - 1)).toks
                 e2 == VariableScan(e1, line, toks, 1)
             IN  IF e2.ret THEN e2
                 ELSE ExceptionCheck(EmitOutputs(e2, line, toks, 1), line, toks)

RECURSIVE AnyLine(_, _, _)
\* list.Any(bp => bp.Line == line)
AnyLine(list, line, i) ==
    IF i > Len(list) THEN FALSE
    ELSE list[i].line = line \/ AnyLine(list, line, i + 1)

RECURSIVE FallbackKey(_, _, _)
\* the first key of the registry, in its order, with the file name of the source
FallbackKey(e, keys, k) ==
    IF k > Len(keys) THEN ""
    ELSE IF GetFileName(keys[k]) = GetFileName(e.sourceFile) THEN keys[k]
    ELSE FallbackKey(e, keys, k + 1)

IsBreakpoint(e, line) ==
    IF HasKey(e, e.sourceFile) THEN AnyLine(ListOf(e, e.sourceFile), line, 1)
    ELSE LET key == FallbackKey(e, e.bpKeys, 1) IN
         IF key # "" THEN AnyLine(ListOf(e, key), line, 1) ELSE FALSE

UpdateCurrentLine(e, reverse) ==
    IF reverse
    THEN IF e.currentLine > 0
         THEN LET l == e.currentLine - 1 IN
              [e EXCEPT !.currentLine = l,
                        !.currentColumn = {},
                        !.instruction = IF InRange(e.ends, l) THEN At(e.ends, l) - 1 ELSE @,
                        !.ret = FALSE]
         ELSE [Emit([e EXCEPT !.currentLine = 0, !.currentColumn = {}],
                    StopEv("entry", 0, {}, {})) EXCEPT !.ret = TRUE]
    ELSE IF e.currentLine < Len(e.sourceLines) - 1
         THEN LET l == e.currentLine + 1 IN
              [e EXCEPT !.currentLine = l,
                        !.currentColumn = {},
                        !.instruction = IF InRange(e.starts, l) THEN At(e.starts, l) ELSE @,
                        !.ret = FALSE]
         ELSE [e EXCEPT !.currentColumn = {}, !.ret = TRUE]

RECURSIVE FindNextStatementFrom(_, _, _)
\* the for loop of FindNextStatement, at line ln
FindNextStatementFrom(e, reverse, ln) ==
    IF (reverse /\ ln < 0) \/ (~reverse /\ ln >= Len(e.sourceLines))
    THEN [e EXCEPT !.ret = FALSE]
    ELSE IF IsBreakpoint(e, ln) THEN [e EXCEPT !.currentLine = ln, !.ret = TRUE]
    ELSE IF Len(e.sourceLines) = 0 THEN Raise(e)
    ELSE IF ~IsBlank(At(e.sourceLines, Clamp(ln, 0, Len(e.sourceLines) - 1)))
         THEN [e EXCEPT !.currentLine = ln, !.ret = FALSE]
         ELSE FindNextStatementFrom(e, reverse, IF reverse THEN ln - 1 ELSE ln + 1)

FindNextStatement(e, reverse) == FindNextStatementFrom(e, reverse, e.currentLine)

\* The instruction pointer snapped to the boundary of the current line.
Normalize(e, reverse) ==
    IF InRange(e.starts, e.currentLine)
    THEN [e EXCEPT !.instruction =
            IF reverse
            THEN (IF At(e.ends, e.currentLine) > 0 THEN At(e.ends, e.currentLine) - 1 ELSE 0)
            ELSE At(e.starts, e.currentLine)]
    ELSE e

RECURSIVE ContinueLoop(_, _)
\* the while (true) of ContinueAsync
ContinueLoop(e, reverse) ==
    LET e1 == ExecuteLine(e, e.currentLine, reverse) IN
    IF e1.raised \/ e1.ret THEN e1
    ELSE LET e2 == UpdateCurrentLine(e1, reverse) IN
         IF e2.ret THEN Emit(e2, EndEv)
         ELSE LET e3 == FindNextStatement(e2, reverse) IN
              IF e3.raised THEN e3
              ELSE IF e3.ret
              THEN Emit(e3, StopEv("breakpoint", e3.currentLine, e3.currentColumn, {}))
              ELSE ContinueLoop(e3, reverse)

\* ContinueAsync without the OnEnd() of the pass that runs off the source.
ContinueAsyncNoEnd(e, reverse) ==
    LET r == ContinueLoop([Normalize(e, reverse) EXCEPT !.paused = FALSE], reverse) IN
    IF r.out # << >> /\ r.out[Len(r.out)] = EndEv
    THEN [r EXCEPT !.out = SubSeq(r.out, 1, Len(r.out) - 1)]
    ELSE r

ContinueAsync(e, reverse) ==
    ContinueLoop([Normalize(e, reverse) EXCEPT !.paused = FALSE], reverse)

Next(e, reverse) ==
    LET e1 == ExecuteLine(Normalize(e, reverse), e.currentLine, reverse) IN
    IF e1.raised \/ e1.ret THEN e1
    ELSE LET e2 == UpdateCurrentLine(e1, reverse)
             e3 == IF e2.ret THEN e2 ELSE FindNextStatement(e2, reverse)
         IN  IF e3.raised THEN e3
             ELSE Emit(e3, StopEv("step", e3.currentLine, e3.currentColumn, {}))

RECURSIVE JoinTokens(_, _)
JoinTokens(toks, i) ==
    IF i > Len(toks) THEN ""
    ELSE IF i = Len(toks) THEN TokText(toks[i])
    ELSE TokText(toks[i]) \o " " \o JoinTokens(toks, i + 1)

\* line.Trim()
TrimmedText(ln) == JoinTokens(ln.toks, 1)

Pause(e) ==
    IF e.paused THEN e
    ELSE LET e1 == [e EXCEPT !.paused = TRUE] IN
         IF Len(e1.sourceLines) = 0 THEN Raise(e1)
         ELSE LET ln == At(e1.sourceLines, Clamp(e1.currentLine, 0, Len(e1.sourceLines) - 1))
              IN  Emit(Emit(e1, OutputEv("stdout", TrimmedText(ln), e1.currentLine, 0)),
                       StopEv("pause", e1.currentLine, e1.currentColumn, {}))

Min(a, b) == IF a < b THEN a ELSE b

\* target: {} or {targetId}
StepIn(e, target) ==
    IF target # {}
    THEN Emit([e EXCEPT !.currentColumn = target], StopEv("step", e.currentLine, {}, {}))
    ELSE IF e.currentColumn # {}
    THEN IF ~InRange(e.sourceLines, e.currentLine) THEN Raise(e)
         ELSE LET c == CHOOSE x \in e.currentColumn : TRUE
                  n == Min(LineLength(At(e.sourceLines, e.currentLine)), c + 1)
              IN  Emit([e EXCEPT !.currentColumn = {n}], StopEv("step", e.currentLine, {}, {}))
    ELSE Emit([e EXCEPT !.currentColumn = {1}], StopEv("step", e.currentLine, {}, {}))

StepOut(e) ==
    LET e1 == IF e.currentColumn # {}
              THEN LET next == (CHOOSE x \in e.currentColumn : TRUE) - 1 IN
                   [e EXCEPT !.currentColumn = IF next <= 0 THEN {} ELSE {next}]
              ELSE e
    IN  Emit(e1, StopEv("step", e1.currentLine, {}, {}))

\* accessType == "readWrite" ? "read write" : accessType
NormalizeAccess(accessType) == IF accessType = "readWrite" THEN "read write" ELSE accessType

\* SetDataBreakpoint storing the requested mode over the registered one
SetDataBreakpointOverwrite(e, address, accessType) ==
    [e EXCEPT !.breakAddresses[address] = NormalizeAccess(accessType), !.ret = TRUE]

SetDataBreakpoint(e, address, accessType) ==
    LET norm == NormalizeAccess(accessType)
        existing == e.breakAddresses[address]
    IN  IF existing # ""
        THEN [e EXCEPT !.breakAddresses[address] =
                          IF ~Contains(existing, norm) THEN "read write" ELSE @,
                       !.ret = TRUE]
        ELSE [e EXCEPT !.breakAddresses[address] = norm, !.ret = TRUE]

ClearAllDataBreakpoints(e) == [e EXCEPT !.breakAddresses = NoBreakAddresses]

\* HashSet.Add: false when the address is already in the set
SetInstructionBreakpoint(e, address) ==
    [e EXCEPT !.instructionBreakpoints = @ \cup {address},
              !.ret = address \notin e.instructionBreakpoints]

ClearInstructionBreakpoints(e) == [e EXCEPT !.instructionBreakpoints = {}]

SetExceptionsFilters(e, named, other) ==
    [e EXCEPT !.namedException = named, !.otherExceptions = other]

SetVariable(e, name) == [e EXCEPT !.locals = @ \cup {name}]

\* ============================================================ Engine (Go)
\* OnBreakpointValidated(id, verified): the Go event carries no line
GoValidatedEv(id, verified) ==
    [type |-> "breakpointValidated", id |-> id, verified |-> verified]

GoVerifyLine(e, path, line) ==
    IF line < 0 \/ line >= Len(e.sourceLines) THEN FALSE
    ELSE ~IsBlank(At(e.sourceLines, line))

\* getLine: "" outside the document
GoGetLine(e, line) ==
    IF line < 0 \/ line >= Len(e.sourceLines) THEN EmptyLine ELSE At(e.sourceLines, line)

\* The launch handler reads the file; Engine.LoadSource gets its contents.
GoLoadSource(e, fs, path) ==
    IF fs[path] = NoFile THEN Raise(e)
    ELSE LET lines == ReadAllLines(fs[path])
             ix == BuildInstructions(lines, 0, EmptyIndex)
         IN  [e EXCEPT !.sourceFile = path,
                       !.sourceLines = lines,
                       !.currentLine = 0,
                       !.currentColumn = {},
                       !.instructions = ix.instructions,
                       !.starts = ix.starts,
                       !.ends = ix.ends,
                       !.instruction = IF Len(ix.starts) > 0 THEN ix.starts[1] ELSE 0]

GoPause(e) ==
    IF e.paused THEN e
    ELSE LET e1 == [e EXCEPT !.paused = TRUE] IN
         Emit(Emit(e1, OutputEv("stdout", TrimmedText(GoGetLine(e1, e1.currentLine)),
                                e1.currentLine, 0)),
              StopEv("pause", e1.currentLine, e1.currentColumn, {}))

RECURSIVE GoSetBreakpointsLoop(_, _, _, _)
GoSetBreakpointsLoop(e, p, lines, i) ==
    IF i > Len(lines) THEN e
    ELSE LET l == lines[i]
             verified == GoVerifyLine(e, p, l)
             bp == [id |-> e.nextBpId, line |-> l, verified |-> verified]
             e1 == [e EXCEPT !.nextBpId = @ + 1,
                             !.bpLists[e.bps[p]] = Append(@, bp)]
         IN  GoSetBreakpointsLoop(Emit(e1, GoValidatedEv(bp.id, verified)), p, lines, i + 1)

GoSetBreakpoints(e, path, lines) ==
    Collect(GoSetBreakpointsLoop(NewList(e, path), path, lines, 1))

GoExecuteLine(e, ln, reverse) ==
    \* e.starts[ln], e.ends[ln]: index out of range panics
    IF ~InRange(e.starts, ln) THEN Raise(e)
    ELSE LET e1 == IF reverse THEN ScanReverse(e, ln, At(e.starts, ln))
                   ELSE ScanForward(e, ln, At(e.ends, ln))
         IN  IF e1.ret THEN e1
             ELSE LET toks == GoGetLine(e1, ln).toks
                      e2 == VariableScan(e1, ln, toks, 1)
                  IN  IF e2.ret THEN e2
                      ELSE LET e3 == EmitOutputs(e2, ln, toks, 1) IN
                           IF NamedExceptions(toks) # {}
                           THEN LET ex == CHOOSE n \in NamedExceptions(toks) : TRUE IN
                                IF e3.namedException = {ex}
                                THEN [Emit(e3, StopEv("exception", ln, e3.currentColumn, {ex}))
                                        EXCEPT !.ret = TRUE]
                                ELSE IF e3.otherExceptions
                                THEN [Emit(e3, StopEv("exception", ln, e3.currentColumn, {}))
                                        EXCEPT !.ret = TRUE]
                                ELSE [e3 EXCEPT !.ret = FALSE]
                           ELSE IF HasExceptionWord(toks) /\ e3.otherExceptions
                                THEN [Emit(e3, StopEv("exception", ln, e3.currentColumn, {}))
                                        EXCEPT !.ret = TRUE]
                                ELSE [e3 EXCEPT !.ret = FALSE]

GoUpdateCurrentLine(e, reverse) ==
    IF reverse
    THEN IF e.currentLine > 0
         THEN [e EXCEPT !.currentLine = @ - 1, !.ret = FALSE]
         ELSE [Emit([e EXCEPT !.currentLine = 0, !.currentColumn = {}],
                    StopEv("entry", 0, {}, {})) EXCEPT !.ret = TRUE]
    ELSE IF e.currentLine < Len(e.sourceLines) - 1
         THEN [e EXCEPT !.currentLine = @ + 1, !.ret = FALSE]
         ELSE [e EXCEPT !.currentColumn = {}, !.ret = TRUE]

RECURSIVE FirstAtLine(_, _, _)
\* index of the first breakpoint of the list on the line, 0 when none
FirstAtLine(list, line, i) ==
    IF i > Len(list) THEN 0
    ELSE IF list[i].line = line THEN i
    ELSE FirstAtLine(list, line, i + 1)

RECURSIVE GoFindNextStatementFrom(_, _, _)
GoFindNextStatementFrom(e, reverse, ln) ==
    LET i == IF HasKey(e, e.sourceFile) THEN FirstAtLine(ListOf(e, e.sourceFile), ln, 1) ELSE 0
    IN
    IF i # 0
    THEN LET bp == ListOf(e, e.sourceFile)[i]
             \* bp is a copy of the list's element: bp.Verified = true is lost
             e1 == IF ~bp.verified THEN Emit(e, GoValidatedEv(bp.id, TRUE)) ELSE e
             e2 == [e1 EXCEPT !.currentLine = ln]
         IN  [Emit(e2, StopEv("breakpoint", ln, e2.currentColumn, {})) EXCEPT !.ret = TRUE]
    ELSE IF ~InRange(e.starts, ln) THEN Raise(e)
    ELSE LET addr == IF reverse THEN At(e.starts, ln) ELSE At(e.ends, ln) - 1 IN
         IF addr \in e.instructionBreakpoints
         THEN LET e2 == [e EXCEPT !.currentLine = ln] IN
              [Emit(e2, StopEv("instructionBreakpoint", ln, e2.currentColumn, {}))
                 EXCEPT !.ret = TRUE]
         ELSE IF ~IsBlank(GoGetLine(e, ln)) THEN [e EXCEPT !.currentLine = ln, !.ret = FALSE]
         ELSE IF reverse
              THEN (IF ln <= 0 THEN [e EXCEPT !.ret = FALSE]
                    ELSE GoFindNextStatementFrom(e, reverse, ln - 1))
              ELSE (IF ln + 1 >= Len(e.sourceLines) THEN [e EXCEPT !.ret = FALSE]
                    ELSE GoFindNextStatementFrom(e, reverse, ln + 1))

GoFindNextStatement(e, reverse) == GoFindNextStatementFrom(e, reverse, e.currentLine)

\* The pause check at the head of the loop of Continue never fires when no
\* Pause runs beside it: Continue has just cleared the flag.
RECURSIVE GoContinueLoop(_, _)
GoContinueLoop(e, reverse) ==
    IF e.paused
    THEN Emit([e EXCEPT !.paused = FALSE], StopEv("pause", e.currentLine, e.currentColumn, {}))
    ELSE LET e1 == GoExecuteLine(e, e.currentLine, reverse) IN
         IF e1.raised \/ e1.ret THEN e1
         ELSE LET e2 == GoUpdateCurrentLine(e1, reverse) IN
              IF e2.ret THEN Emit(e2, EndEv)
              ELSE LET e3 == GoFindNextStatement(e2, reverse) IN
                   IF e3.raised \/ e3.ret THEN e3
                   ELSE GoContinueLoop(e3, reverse)

GoContinue(e, reverse) ==
    GoContinueLoop([Normalize(e, reverse) EXCEPT !.paused = FALSE], reverse)

GoNext(e, reverse) ==
    LET e1 == GoExecuteLine(Normalize(e, reverse), e.currentLine, reverse) IN
    IF e1.raised \/ e1.ret THEN e1
    ELSE LET e2 == GoUpdateCurrentLine(e1, reverse)
             e3 == IF e2.ret THEN e2 ELSE GoFindNextStatement(e2, reverse)
         IN  IF e3.raised THEN e3
             ELSE Emit(e3, StopEv("step", e3.currentLine, e3.currentColumn, {}))

GoStepIn(e, target) ==
    LET e1 == IF target # {} THEN [e EXCEPT !.currentColumn = target]
              ELSE IF e.currentColumn # {}
              THEN [e EXCEPT !.currentColumn = {(CHOOSE x \in e.currentColumn : TRUE) + 1}]
              ELSE [e EXCEPT !.currentColumn = {1}]
    IN  Emit(e1, StopEv("step", e1.currentLine, e1.currentColumn, {}))

GoStepOut(e) ==
    LET e1 == IF e.currentColumn # {}
              THEN LET v == (CHOOSE x \in e.currentColumn : TRUE) - 1 IN
                   [e EXCEPT !.currentColumn = IF v <= 0 THEN {} ELSE {v}]
              ELSE e
    IN  Emit(e1, StopEv("step", e1.currentLine, e1.currentColumn, {}))

GoSetDataBreakpoint(e, address, access) ==
    LET a == NormalizeAccess(access)
        cur == e.breakAddresses[address]
    IN  IF cur # ""
        THEN [e EXCEPT !.breakAddresses[address] = IF cur # a THEN "read write" ELSE @,
                       !.ret = TRUE]
        ELSE [e EXCEPT !.breakAddresses[address] = a, !.ret = TRUE]

GoSetInstructionBreakpoint(e, addr) ==
    [e EXCEPT !.instructionBreakpoints = @ \cup {addr}, !.ret = TRUE]

\* ======================================================== MockRuntime (TS)
\* line.trim()
Trim(ln) == [ln EXCEPT !.ws = 0]

RECURSIVE TrimAll(_, _)
TrimAll(lines, i) ==
    IF i > Len(lines) THEN << >> ELSE << Trim(lines[i]) >> \o TrimAll(lines, i + 1)

\* set currentLine(x) { this._currentLine = x; this.instruction = this.starts[x] ?? 0; }
TsSetCurrentLine(e, x) ==
    [e EXCEPT !.currentLine = x,
              !.instruction = IF InRange(e.starts, x) THEN At(e.starts, x) ELSE 0]

\* getLine(line): the trimmed line, '' outside the document
TsGetLine(e, line) ==
    IF InRange(e.sourceLines, line) THEN Trim(At(e.sourceLines, line)) ELSE EmptyLine

TsInitializeContents(e, doc) ==
    LET lines == SplitSegments(doc)
        ix == BuildInstructions(TrimAll(lines, 1), 0, EmptyIndex)
    IN  [e EXCEPT !.sourceLines = lines,
                  !.instructions = ix.instructions,
                  !.starts = ix.starts,
                  !.ends = ix.ends,
                  !.currentLine = 0,
                  !.instruction = IF Len(ix.starts) > 0 THEN ix.starts[1] ELSE 0]

\* loadSource(file): nothing is read when the file is the loaded one
TsLoadSource(e, fs, file) ==
    IF e.sourceFile # file
    THEN LET e1 == [e EXCEPT !.sourceFile = file] IN
         IF fs[file] = NoFile THEN Raise(e1) ELSE TsInitializeContents(e1, fs[file])
    ELSE e

RECURSIVE TsVerifyEach(_, _, _)
\* bps.forEach of verifyBreakpoints
TsVerifyEach(e, path, i) ==
    IF i > Len(ListOf(e, path)) THEN e
    ELSE LET bp == ListOf(e, path)[i] IN
         IF ~bp.verified /\ bp.line >= 0 /\ bp.line < Len(e.sourceLines)
         THEN LET ok == ~IsBlank(At(e.sourceLines, bp.line))
                  e1 == [e EXCEPT !.bpLists[e.bps[path]][i].verified = ok]
              IN  TsVerifyEach(Emit(e1, ValidatedEv(bp.id, bp.line, ok)), path, i + 1)
         ELSE TsVerifyEach(e, path, i + 1)

TsVerifyBreakpoints(e, fs, path) ==
    IF ~HasKey(e, path) THEN e
    ELSE LET e1 == TsLoadSource(e, fs, path) IN
         IF e1.raised THEN e1 ELSE TsVerifyEach(e1, path, 1)

\* setBreakPoint(path, line)
TsSetBreakPoint(e, fs, path, line) ==
    LET bp == [id |-> e.nextBpId, line |-> line, verified |-> FALSE]
        e1 == [e EXCEPT !.nextBpId = @ + 1]
        e2 == IF HasKey(e1, path) THEN e1 ELSE NewList(e1, path)
        e3 == [e2 EXCEPT !.bpLists[e2.bps[path]] = Append(@, bp)]
    IN  TsVerifyBreakpoints(e3, fs, path)

RECURSIVE Without(_, _)
Without(keys, p) ==
    IF keys = << >> THEN << >>
    ELSE IF Head(keys) = p THEN Without(Tail(keys), p)
    ELSE << Head(keys) >> \o Without(Tail(keys), p)

\* clearBreakpoints(path): breakPoints.delete(path)
TsClearBreakpoints(e, path) ==
    Collect([e EXCEPT !.bps[path] = 0, !.bpKeys = Without(@, path)])

RECURSIVE TsSetBreakpointsLoop(_, _, _, _, _)
\* the for loop of the setBreakpoints handler; acc are the results so far
TsSetBreakpointsLoop(e, fs, path, lines, i) ==
    IF i > Len(lines) THEN e
    ELSE LET e1 == TsSetBreakPoint(e, fs, path, lines[i]) IN
         IF e1.raised THEN e1 ELSE TsSetBreakpointsLoop(e1, fs, path, lines, i + 1)

\* case 'setBreakpoints' of handleConnection: clear then re-add
TsSetBreakpoints(e, fs, path, lines) ==
    TsSetBreakpointsLoop(TsClearBreakpoints(e, path), fs, path, lines, 1)

RECURSIVE TsScan(_, _, _)
\* while (reverse ? instruction >= starts[ln] : instruction < ends[ln]); a
\* comparison with the undefined bound of a line outside the document is false
TsScan(e, ln, reverse) ==
    IF /\ InRange(e.starts, ln)
       /\ IF reverse THEN e.instruction >= At(e.starts, ln) ELSE e.instruction < At(e.ends, ln)
    THEN LET e1 == [e EXCEPT !.instruction = IF reverse THEN @ - 1 ELSE @ + 1] IN
         IF e1.instruction \in e1.instructionBreakpoints
         THEN [Emit(e1, StopEv("instructionBreakpoint", e1.currentLine, e1.currentColumn, {}))
                 EXCEPT !.ret = TRUE]
         ELSE TsScan(e1, ln, reverse)
    ELSE [e EXCEPT !.ret = FALSE]

RECURSIVE TsVariableScan(_, _, _)
TsVariableScan(e, toks, i) ==
    IF i > Len(toks) THEN [e EXCEPT !.ret = FALSE]
    ELSE LET t == toks[i] IN
         IF t.k \notin {"read", "write"} THEN TsVariableScan(e, toks, i + 1)
         ELSE LET name == t.v
                  \* one map holds the seen names and their values
                  access == IF name \in e.variables
                            THEN (IF t.k = "write" THEN "write" ELSE "read")
                            ELSE ""
                  e1 == IF t.k = "write"
                        THEN [e EXCEPT !.variables = @ \cup {name},
                                       !.locals = @ \cup {name}]
                        ELSE e
                  accessType == IF name \in VarNames THEN e1.breakAddresses[name] ELSE ""
              IN  IF access # "" /\ accessType # "" /\ Contains(accessType, access)
                  THEN [Emit(e1, StopEv("dataBreakpoint", e1.currentLine, e1.currentColumn, {}))
                          EXCEPT !.ret = TRUE]
                  ELSE TsVariableScan(e1, toks, i + 1)

\* line.indexOf('exception') >= 0
TsHasException(toks) ==
    \E i \in 1..Len(toks) :
        \/ toks[i].k = "exception"
        \/ toks[i].v \in {"exception", "exceptions"}

TsExecuteLine(e, ln, reverse) ==
    LET e1 == TsScan(e, ln, reverse) IN
    IF e1.ret THEN e1
    ELSE LET toks == TsGetLine(e1, ln).toks
             e2 == TsVariableScan(e1, toks, 1)
         IN  IF e2.ret THEN e2
             ELSE LET e3 == EmitOutputs(e2, ln, toks, 1) IN
                  IF NamedExceptions(toks) # {}
                  THEN LET exception == CHOOSE n \in NamedExceptions(toks) : TRUE IN
                       IF e3.namedException = {exception}
                       THEN [Emit(e3, StopEv("exception", e3.currentLine, e3.currentColumn,
                                             {exception})) EXCEPT !.ret = TRUE]
                       ELSE IF e3.otherExceptions
                       THEN [Emit(e3, StopEv("exception", e3.currentLine, e3.currentColumn, {}))
                               EXCEPT !.ret = TRUE]
                       ELSE [e3 EXCEPT !.ret = FALSE]
                  ELSE IF TsHasException(toks) /\ e3.otherExceptions
                       THEN [Emit(e3, StopEv("exception", e3.currentLine, e3.currentColumn, {}))
                               EXCEPT !.ret = TRUE]
                       ELSE [e3 EXCEPT !.ret = FALSE]

TsUpdateCurrentLine(e, reverse) ==
    IF reverse
    THEN IF e.currentLine > 0
         THEN [TsSetCurrentLine(e, e.currentLine - 1) EXCEPT !.ret = FALSE]
         ELSE [Emit([TsSetCurrentLine(e, 0) EXCEPT !.currentColumn = {}],
                    StopNoLineEv("entry")) EXCEPT !.ret = TRUE]
    ELSE IF e.currentLine < Len(e.sourceLines) - 1
         THEN [TsSetCurrentLine(e, e.currentLine + 1) EXCEPT !.ret = FALSE]
         ELSE [Emit([e EXCEPT !.currentColumn = {}], EndEv) EXCEPT !.ret = TRUE]

RECURSIVE TsFindNextStatementFrom(_, _, _, _)
\* stepEvent: "" when the caller passes none
TsFindNextStatementFrom(e, reverse, stepEvent, ln) ==
    IF (reverse /\ ln < 0) \/ (~reverse /\ ln >= Len(e.sourceLines))
    THEN IF stepEvent # ""
         THEN [Emit(e, StopEv(stepEvent, e.currentLine, e.currentColumn, {})) EXCEPT !.ret = TRUE]
         ELSE [e EXCEPT !.ret = FALSE]
    ELSE LET i == IF HasKey(e, e.sourceFile)
                  THEN FirstAtLine(ListOf(e, e.sourceFile), ln, 1) ELSE 0
         IN
         IF i # 0
         THEN LET bp == ListOf(e, e.sourceFile)[i]
                  e1 == TsSetCurrentLine(e, ln)
                  e2 == IF ~bp.verified
                        THEN Emit([e1 EXCEPT !.bpLists[e1.bps[e1.sourceFile]][i].verified = TRUE],
                                  ValidatedEv(bp.id, bp.line, TRUE))
                        ELSE e1
              IN  [Emit(e2, StopEv("breakpoint", e2.currentLine, e2.currentColumn, {}))
                     EXCEPT !.ret = TRUE]
         ELSE IF (IF reverse THEN At(e.starts, ln) ELSE At(e.ends, ln) - 1)
                    \in e.instructionBreakpoints
         THEN LET e1 == TsSetCurrentLine(e, ln) IN
              [Emit(e1, StopEv("instructionBreakpoint", e1.currentLine, e1.currentColumn, {}))
                 EXCEPT !.ret = TRUE]
         ELSE IF ~IsBlank(TsGetLine(e, ln))
         THEN LET e1 == TsSetCurrentLine(e, ln) IN
              IF stepEvent # ""
              THEN [Emit(e1, StopEv(stepEvent, e1.currentLine, e1.currentColumn, {}))
                      EXCEPT !.ret = TRUE]
              ELSE [e1 EXCEPT !.ret = FALSE]
         ELSE TsFindNextStatementFrom(e, reverse, stepEvent, IF reverse THEN ln - 1 ELSE ln + 1)

TsFindNextStatement(e, reverse, stepEvent) ==
    TsFindNextStatementFrom(e, reverse, stepEvent, e.currentLine)

RECURSIVE TsContinue(_, _)
\* continue(reverse)
TsContinue(e, reverse) ==
    LET e1 == TsExecuteLine(e, e.currentLine, reverse) IN
    IF e1.ret THEN e1
    ELSE LET e2 == TsUpdateCurrentLine(e1, reverse) IN
         IF e2.ret THEN e2
         ELSE LET e3 == TsFindNextStatement(e2, reverse, "") IN
              IF e3.ret THEN e3 ELSE TsContinue(e3, reverse)

\* step(false, reverse)
TsStep(e, reverse) ==
    LET e1 == TsExecuteLine(e, e.currentLine, reverse) IN
    IF e1.ret THEN e1
    ELSE LET e2 == TsUpdateCurrentLine(e1, reverse) IN
         IF e2.ret THEN e2 ELSE TsFindNextStatement(e2, reverse, "step")

TsPause(e) == Emit(e, StopEv("pause", e.currentLine, e.currentColumn, {}))

TsStepIn(e, target) ==
    IF target # {}
    THEN LET e1 == [e EXCEPT !.currentColumn = target] IN
         Emit(e1, StopEv("step", e1.currentLine, e1.currentColumn, {}))
    ELSE IF e.currentColumn # {}
    THEN \* this.sourceLines[this.currentLine].length: TypeError outside the document
         IF ~InRange(e.sourceLines, e.currentLine) THEN Raise(e)
         ELSE LET c == CHOOSE x \in e.currentColumn : TRUE
                  e1 == IF c <= LineLength(At(e.sourceLines, e.currentLine))
                        THEN [e EXCEPT !.currentColumn = {c + 1}] ELSE e
              IN  Emit(e1, StopEv("step", e1.currentLine, e1.currentColumn, {}))
    ELSE LET e1 == [e EXCEPT !.currentColumn = {1}] IN
         Emit(e1, StopEv("step", e1.currentLine, e1.currentColumn, {}))

TsStepOut(e) ==
    LET e1 == IF e.currentColumn # {}
              THEN LET c == (CHOOSE x \in e.currentColumn : TRUE) - 1 IN
                   [e EXCEPT !.currentColumn = IF c = 0 THEN {} ELSE {c}]
              ELSE e
    IN  Emit(e1, StopEv("step", e1.currentLine, e1.currentColumn, {}))

TsSetDataBreakpoint(e, address, accessType) ==
    LET x == NormalizeAccess(accessType)
        t == e.breakAddresses[address]
    IN  IF t # ""
        THEN [e EXCEPT !.breakAddresses[address] = IF t # x THEN "read write" ELSE @,
                       !.ret = TRUE]
        ELSE [e EXCEPT !.breakAddresses[address] = x, !.ret = TRUE]

\* setVariable: the map of values is the map of seen names
TsSetVariable(e, name) ==
    [e EXCEPT !.variables = @ \cup {name}, !.locals = @ \cup {name}]

\* ================================================================ actions
\* The inputs of the operations.
BpPaths == {"/a/x.md", "/b/x.md"}
BpLines == {1, 7}
BpLineLists == UNION {[1..n -> BpLines] : n \in 0..MaxBpLines}
InstrAddrs == {3, 5}
AccessTypes == {"read", "write", "readWrite"}
Targets == {{}, {0}, {2}}
Filters == {{}, {"Err"}, {"Oops"}}

DoLoadSource(path) ==
    CASE impl = "cs" -> LoadSourceAsync(Engine, files, path)
      [] impl = "go" -> GoLoadSource(Engine, files, path)
      [] impl = "ts" -> TsLoadSource(Engine, files, path)

DoSetBreakpoints(path, lines) ==
    CASE impl = "cs" -> SetBreakpoints(Engine, path, lines)
      [] impl = "go" -> GoSetBreakpoints(Engine, path, lines)
      [] impl = "ts" -> TsSetBreakpoints(Engine, files, path, lines)

DoContinue(reverse) ==
    CASE impl = "cs" -> ContinueAsync(Engine, reverse)
      [] impl = "go" -> GoContinue(Engine, reverse)
      [] impl = "ts" -> TsContinue(Engine, reverse)

DoNext(reverse) ==
    CASE impl = "cs" -> Next(Engine, reverse)
      [] impl = "go" -> GoNext(Engine, reverse)
      [] impl = "ts" -> TsStep(Engine, reverse)

DoPause ==
    CASE impl = "cs" -> Pause(Engine)
      [] impl = "go" -> GoPause(Engine)
      [] impl = "ts" -> TsPause(Engine)

DoStepIn(target) ==
    CASE impl = "cs" -> StepIn(Engine, target)
      [] impl = "go" -> GoStepIn(Engine, target)
      [] impl = "ts" -> TsStepIn(Engine, target)

DoStepOut ==
    CASE impl = "cs" -> StepOut(Engine)
      [] impl = "go" -> GoStepOut(Engine)
      [] impl = "ts" -> TsStepOut(Engine)

DoSetDataBreakpoint(address, accessType) ==
    CASE impl = "cs" -> SetDataBreakpoint(Engine, address, accessType)
      [] impl = "go" -> GoSetDataBreakpoint(Engine, address, accessType)
      [] impl = "ts" -> TsSetDataBreakpoint(Engine, address, accessType)

DoSetInstructionBreakpoint(address) ==
    CASE impl = "cs" -> SetInstructionBreakpoint(Engine, address)
      [] impl \in {"go", "ts"} -> GoSetInstructionBreakpoint(Engine, address)

DoSetVariable(name) ==
    CASE impl \in {"cs", "go"} -> SetVariable(Engine, name)
      [] impl = "ts" -> TsSetVariable(Engine, name)

\* A method that returns nothing.
Void(e) == [e EXCEPT !.ret = FALSE]

LoadSourceOp ==
    \E path \in Paths :
        Commit(Void(DoLoadSource(path)), Op("LoadSource", << path >>))

SetBreakpointsOp ==
    \E path \in BpPaths, lines \in BpLineLists :
        /\ nextBpId + Len(lines) <= MaxBpId + 1
        /\ LET e == DoSetBreakpoints(path, lines) IN
           Commit([e EXCEPT !.ret = IF e.raised \/ ~HasKey(e, path) THEN << >>
                                    ELSE ListOf(e, path)],
                  Op("SetBreakpoints", << path, lines >>))

ContinueOp ==
    \E reverse \in BOOLEAN :
        Commit(Void(DoContinue(reverse)), Op("Continue", << reverse >>))

NextOp ==
    \E reverse \in BOOLEAN :
        Commit(Void(DoNext(reverse)), Op("Next", << reverse >>))

PauseOp == Commit(Void(DoPause), Op("Pause", << >>))

StepInOp ==
    \E target \in Targets :
        /\ \A c \in currentColumn : c <= MaxColumn
        /\ Commit(Void(DoStepIn(target)), Op("StepIn", << target >>))

StepOutOp ==
    /\ \A c \in currentColumn : c >= 0 - MaxColumn
    /\ Commit(Void(DoStepOut), Op("StepOut", << >>))

SetDataBreakpointOp ==
    \E address \in VarNames, accessType \in AccessTypes :
        Commit(DoSetDataBreakpoint(address, accessType),
               Op("SetDataBreakpoint", << address, accessType >>))

ClearAllDataBreakpointsOp ==
    Commit(Void(ClearAllDataBreakpoints(Engine)), Op("ClearAllDataBreakpoints", << >>))

SetInstructionBreakpointOp ==
    \E address \in InstrAddrs :
        Commit(DoSetInstructionBreakpoint(address),
               Op("SetInstructionBreakpoint", << address >>))

ClearInstructionBreakpointsOp ==
    Commit(Void(ClearInstructionBreakpoints(Engine)), Op("ClearInstructionBreakpoints", << >>))

SetExceptionsFiltersOp ==
    \E named \in Filters, other \in BOOLEAN :
        Commit(Void(SetExceptionsFilters(Engine, named, other)),
               Op("SetExceptionsFilters", << named, other >>))

SetVariableOp ==
    \E name \in VarNames :
        Commit(Void(DoSetVariable(name)), Op("SetVariable", << name >>))

NextAll ==
    \/ LoadSourceOp
    \/ SetBreakpointsOp
    \/ ContinueOp
    \/ NextOp
    \/ PauseOp
    \/ StepInOp
    \/ StepOutOp
    \/ SetDataBreakpointOp
    \/ ClearAllDataBreakpointsOp
    \/ SetInstructionBreakpointOp
    \/ ClearInstructionBreakpointsOp
    \/ SetExceptionsFiltersOp
    \/ SetVariableOp

SpecAll == Init /\ [][NextAll]_vars

\* Stepping under instruction and data breakpoints and exception filters.
NextStep ==
    \/ LoadSourceOp
    \/ ContinueOp
    \/ NextOp
    \/ SetDataBreakpointOp
    \/ ClearAllDataBreakpointsOp
    \/ SetInstructionBreakpointOp
    \/ ClearInstructionBreakpointsOp
    \/ SetExceptionsFiltersOp

SpecStep == Init /\ [][NextStep]_vars

\* Pausing and column stepping.
NextPause ==
    \/ LoadSourceOp
    \/ ContinueOp
    \/ NextOp
    \/ PauseOp
    \/ StepInOp
    \/ StepOutOp

SpecPause == Init /\ [][NextPause]_vars

\* The breakpoint registry.
NextBp ==
    \/ LoadSourceOp
    \/ SetBreakpointsOp

SpecBp == Init /\ [][NextBp]_vars

\* ------------------------------------------------------------ observations
\* What the last call emitted, read off the event sequence.
Stops(evs) == SelectSeq(evs, LAMBDA ev : ev.type = "stopped")
Outputs(evs) == SelectSeq(evs, LAMBDA ev : ev.type = "output")
Ends(evs) == SelectSeq(evs, LAMBDA ev : ev.type = "terminated")
StopReasons(evs) == [i \in 1..Len(Stops(evs)) |-> Stops(evs)[i].reason]
SourceLoaded == Len(sourceLines) > 0
Called(name) == lastOp.name = name

\* ------------------------------------------------------------------ claims
\* C1: with a non-empty source loaded, one call of Next, in either direction,
\* emits exactly one stop event: never none and never two.
C1_NextEmitsOneStop ==
    (Called("Next") /\ SourceLoaded) => Len(Stops(events)) = 1

\* The category, payload and line of each func(payload) token of the lines
\* first..(number of lines - 1) of a document, in line order and, on a line,
\* in token order.
LogTokensOfLine(toks, l) ==
    LET idx == SelectSeq([i \in 1..Len(toks) |-> i], LAMBDA i : toks[i].k \in LogFuncs)
    IN  [j \in 1..Len(idx) |-> << toks[idx[j]].k, toks[idx[j]].v, l >>]

RECURSIVE LogTokensFrom(_, _)
LogTokensFrom(lines, first) ==
    IF first >= Len(lines) THEN << >>
    ELSE LogTokensOfLine(At(lines, first).toks, first) \o LogTokensFrom(lines, first + 1)

OutputTriples(evs) ==
    [i \in 1..Len(Outputs(evs)) |->
        << Outputs(evs)[i].category, Outputs(evs)[i].text, Outputs(evs)[i].line >>]

NoSourceBreakpoints == \A p \in Paths : bps[p] = 0 \/ bpLists[bps[p]] = << >>
NothingToStopOn ==
    /\ NoSourceBreakpoints
    /\ breakAddresses = NoBreakAddresses
    /\ instructionBreakpoints = {}
    /\ namedException = {}
    /\ ~otherExceptions

\* C2: with no source, data or instruction breakpoint and no exception filter,
\* Continue(false) started on a line L of the loaded source emits no stop
\* event, emits one output per func(payload) token of every line from L to the
\* last line in line order, and then emits the end event exactly once.
C2_ContinueRunsToEnd ==
    [][ ( /\ lastOp'.name = "Continue"
          /\ lastOp'.args[1] = FALSE
          /\ NothingToStopOn
          /\ InRange(sourceLines, currentLine) )
        => ( /\ ~raised'
             /\ Stops(events') = << >>
             /\ OutputTriples(events') = LogTokensFrom(sourceLines, currentLine)
             /\ Len(events') = Len(Outputs(events')) + 1
             /\ events'[Len(events')] = EndEv ) ]_vars

\* a forward Continue from line 0 that ran through several output lines to the end
C2_Witness ==
    /\ Called("Continue")
    /\ lastOp.args[1] = FALSE
    /\ NothingToStopOn
    /\ Len(Outputs(events)) >= 3
    /\ Outputs(events)[1].line < Outputs(events)[3].line
    /\ events[Len(events)] = EndEv

HasStop(evs, reason) == \E i \in 1..Len(evs) : evs[i].type = "stopped" /\ evs[i].reason = reason

\* C3: a Continue(true) that runs backwards past line 0 without meeting a stop
\* condition emits exactly one stop, of reason entry, and halts on line 0; the
\* end event is not emitted by that call.
C3_ReverseContinueStopsOnEntry ==
    (Called("Continue") /\ lastOp.args[1] = TRUE /\ HasStop(events, "entry"))
        => ( /\ StopReasons(events) = << "entry" >>
             /\ currentLine = 0
             /\ Ends(events) = << >> )

\* The tokens of the line the next Continue or Next executes first.
CurrentLineToks ==
    IF InRange(sourceLines, currentLine) THEN At(sourceLines, currentLine).toks ELSE << >>

\* The step about to be taken is a Continue or a Next on a line of the source.
ExecutesCurrentLine ==
    /\ lastOp'.name \in {"Continue", "Next"}
    /\ InRange(sourceLines, currentLine)

\* What executing a line with exception(N) must emit, as the filters
\* (namedException, otherExceptions) of the state before the call decide.
ExceptionOutcome(N, evs, line, byContinue) ==
    LET stopsHere == SelectSeq(Stops(evs), LAMBDA ev : ev.reason = "exception" /\ ev.line = {line})
        halts == /\ Len(stopsHere) = 1
                 /\ evs[Len(evs)] = stopsHere[1]
                 /\ byContinue => (Len(Stops(evs)) = 1 /\ Ends(evs) = << >>)
    IN  IF namedException = {N} THEN halts /\ stopsHere[1].exception = {N}
        ELSE IF otherExceptions THEN halts /\ stopsHere[1].exception = {}
        ELSE stopsHere = << >>

\* The first stop of the call is an instruction or data breakpoint on the line.
PreemptedOn(evs, line) ==
    /\ Stops(evs) # << >>
    /\ Stops(evs)[1].reason \in {"instructionBreakpoint", "dataBreakpoint"}
    /\ Stops(evs)[1].line = {line}

HasMode(stored, access) == stored \in {access, "read write"}

\* A data breakpoint matches an access of the line: a read or write token of
\* a name that is already seen and whose stored mode covers the access.
DataBreakpointMatches(toks) ==
    \E i \in 1..Len(toks) :
        /\ toks[i].k \in {"read", "write"}
        /\ toks[i].v \in variables
        /\ toks[i].v \in VarNames
        /\ HasMode(breakAddresses[toks[i].v], toks[i].k)

\* An instruction breakpoint lies in the range [starts[L], ends[L]) of line L.
InstructionBreakpointIn(L) ==
    /\ InRange(starts, L)
    /\ \E a \in instructionBreakpoints : At(starts, L) <= a /\ a < At(ends, L)

\* C5: when an instruction breakpoint lies in [starts[L], ends[L]) and a data
\* breakpoint matches an access on line L, executing L forward (Continue or
\* Next) stops with reason instructionBreakpoint and emits no dataBreakpoint
\* stop.
C5_InstructionBreakpointFirst ==
    [][ ( /\ ExecutesCurrentLine
          /\ lastOp'.args[1] = FALSE
          /\ InstructionBreakpointIn(currentLine)
          /\ DataBreakpointMatches(CurrentLineToks) )
        => ( /\ Stops(events') # << >>
             /\ Stops(events')[1].reason = "instructionBreakpoint"
             /\ ~HasStop(events', "dataBreakpoint") ) ]_vars

\* The line has a bare read ($x) or an assignment ($x=value) of name x.
AccessesName(toks, x) == \E i \in 1..Len(toks) : toks[i].k \in {"read", "write"} /\ toks[i].v = x

\* The first stop of the call is on the line and has one of the reasons.
FirstStopOn(evs, line, reasons) ==
    /\ Stops(evs) # << >>
    /\ Stops(evs)[1].reason \in reasons
    /\ Stops(evs)[1].line = {line}

\* C6 as stated: after SetDataBreakpoint(x, "read") followed by
\* SetDataBreakpoint(x, "write") with no ClearAllDataBreakpoints since, every
\* execution of a line that reads or writes x, on which no instruction
\* breakpoint fires first, stops with reason dataBreakpoint.
C6_ReadThenWriteStopsAsStated ==
    [][ \A x \in VarNames :
          ( /\ ExecutesCurrentLine
            /\ hist.readThenWrite[x] = 2
            /\ AccessesName(CurrentLineToks, x)
            /\ ~FirstStopOn(events', currentLine, {"instructionBreakpoint"}) )
          => FirstStopOn(events', currentLine, {"dataBreakpoint"}) ]_vars

\* C6, amended: the same, for the lines that read or write x once x has been
\* assigned before the call (x is a seen variable).
C6_ReadThenWriteStops ==
    [][ \A x \in VarNames :
          ( /\ ExecutesCurrentLine
            /\ hist.readThenWrite[x] = 2
            /\ x \in variables
            /\ AccessesName(CurrentLineToks, x)
            /\ ~FirstStopOn(events', currentLine, {"instructionBreakpoint"}) )
          => FirstStopOn(events', currentLine, {"dataBreakpoint"}) ]_vars

\* read then write were requested for x, and a later Next stopped on an
\* assignment to the seen x with reason dataBreakpoint
C6_Witness ==
    /\ Called("Next")
    /\ hist.readThenWrite["x"] = 2
    /\ AccessesName(CurrentLineToks, "x")
    /\ At(sourceLines, currentLine).toks[1].k = "write"
    /\ StopReasons(events) = << "dataBreakpoint" >>

\* C7: over SetDataBreakpoint calls, and any other call but
\* ClearAllDataBreakpoints, the stored mode of a name only widens: a stored
\* mode that covers read (write) still covers it after the call, and a
\* SetDataBreakpoint request that differs from the stored mode leaves the
\* stored mode "read write".
C7_ModeOnlyWidens ==
    [][ lastOp'.name # "ClearAllDataBreakpoints"
        => \A x \in VarNames :
             /\ \A access \in {"read", "write"} :
                  HasMode(breakAddresses[x], access) => HasMode(breakAddresses'[x], access)
             /\ ( /\ lastOp'.name = "SetDataBreakpoint"
                  /\ lastOp'.args[1] = x
                  /\ breakAddresses[x] # ""
                  /\ breakAddresses[x] #
                        (IF lastOp'.args[2] = "readWrite" THEN "read write" ELSE lastOp'.args[2]) )
                => breakAddresses'[x] = "read write" ]_vars

\* a read request arrived for a name whose stored mode was widened to
\* "read write" by an earlier read and write, and the mode stayed wide
C7_Witness ==
    /\ Called("SetDataBreakpoint")
    /\ lastOp.args = << "x", "read" >>
    /\ hist.readThenWrite["x"] = 2
    /\ breakAddresses["x"] = "read write"

\* The engine's own state, without the record of what the last call emitted.
engineState ==
    << sourceFile, sourceLines, currentLine, currentColumn, instructions, starts,
       ends, instruction, paused, bps, bpLists, bpKeys, nextBpId,
       instructionBreakpoints, breakAddresses, namedException, otherExceptions,
       variables, locals >>

\* C8: Pause is idempotent while paused: of two Pause calls in a row, the
\* first made while not paused, exactly one pause stop is emitted in total;
\* the second call emits no event and changes no state.
C8_PauseIdempotent ==
    [][ ( /\ lastOp.name = "Pause"
          /\ lastOp'.name = "Pause"
          /\ ~hist.pausedBefore
          /\ SourceLoaded )
        => ( /\ StopReasons(events) \o StopReasons(events') = << "pause" >>
             /\ events' = << >>
             /\ engineState' = engineState ) ]_vars

\* The breakpoints registered for a path; none when the path has no entry.
BreakpointsOf(registry, lists, p) == IF registry[p] = 0 THEN << >> ELSE lists[registry[p]]
Ids(list) == [i \in 1..Len(list) |-> list[i].id]

C10_VerifiedFlag ==
    (Called("SetBreakpoints") /\ ~raised)
        => \A i \in 1..Len(result) :
             result[i].verified =
                ( /\ SourceLoaded
                  /\ InRange(sourceLines, result[i].line)
                  /\ ~IsBlank(At(sourceLines, result[i].line)) )

\* Every breakpoint the registry holds: the elements of its list objects.
RECURSIVE HeldFrom(_, _)
HeldFrom(lists, s) == IF s > Len(lists) THEN << >> ELSE lists[s] \o HeldFrom(lists, s + 1)
Held(lists) == HeldFrom(lists, 1)

\* C11: breakpoint ids come from one global counter.  The counter never
\* decreases, every id the registry holds lies below it, a SetBreakpoints call
\* numbers its breakpoints upwards from the counter's value before the call
\* (so above every id created before), and the ids held at any time are
\* pairwise distinct.
C11_IdsFromOneCounter ==
    [][ /\ nextBpId' >= nextBpId
        /\ LET held == Held(bpLists') IN
           /\ \A i \in 1..Len(held) : held[i].id < nextBpId'
           /\ \A i, j \in 1..Len(held) : i # j => held[i].id # held[j].id
        /\ lastOp'.name = "SetBreakpoints"
           => LET list == BreakpointsOf(bps', bpLists', lastOp'.args[1]) IN
              /\ \A i \in 1..Len(list) : list[i].id >= nextBpId
              /\ \A i \in 1..Len(list) - 1 : list[i].id < list[i + 1].id ]_vars

\* two paths hold breakpoints and the last call used the counter up to its bound
C11_Witness ==
    /\ Called("SetBreakpoints")
    /\ nextBpId = MaxBpId + 1
    /\ Len(result) = 2
    /\ \E q \in Paths \ {lastOp.args[1]} : Len(BreakpointsOf(bps, bpLists, q)) >= 1

\* C12: SetBreakpoints(path, lines) emits, before it returns, exactly one
\* breakpointValidated notification per requested line, in request order,
\* each with the id and verified flag of the breakpoint returned for that
\* line, and no other notification.
C12_OneNotificationPerLine ==
    (Called("SetBreakpoints") /\ ~raised)
        => /\ Len(result) = Len(lastOp.args[2])
           /\ Len(events) = Len(lastOp.args[2])
           /\ \A i \in 1..Len(events) :
                /\ events[i].type = "breakpointValidated"
                /\ i <= Len(result)
                /\ result[i].line = lastOp.args[2][i]
                /\ events[i].id = result[i].id
                /\ events[i].verified = result[i].verified

\* The verified flag of a line checked afresh against a text: false without
\* text, false outside the text, else whether the line is non-blank.
FreshCheck(lines, l) == Len(lines) > 0 /\ InRange(lines, l) /\ ~IsBlank(At(lines, l))

\* The paths whose breakpoints a load of path concerns: the path itself and
\* the registered paths with the same file name.
SameSource(path) == {q \in Paths : q = path \/ GetFileName(q) = GetFileName(path)}

NotificationsFor(evs, id) ==
    SelectSeq(evs, LAMBDA ev : ev.type = "breakpointValidated" /\ ev.id = id)

\* C13: when LoadSource loads a source, every breakpoint registered under the
\* source's path or under a path with the same file name ends with verified
\* equal to a fresh check of its line against the new text, and a
\* breakpointValidated notification is emitted for a breakpoint exactly when
\* its flag changed (once, with the new flag).
C13_ReverifyOnLoad ==
    [][ (lastOp'.name = "LoadSource" /\ ~raised')
        => \A q \in SameSource(lastOp'.args[1]) :
             LET before == BreakpointsOf(bps, bpLists, q)
                 after == BreakpointsOf(bps', bpLists', q)
             IN  bps[q] # 0
                 => /\ Len(after) = Len(before)
                    /\ \A i \in 1..Len(before) :
                         /\ after[i].id = before[i].id
                         /\ after[i].line = before[i].line
                         /\ after[i].verified = FreshCheck(sourceLines', before[i].line)
                         /\ Len(NotificationsFor(events', before[i].id))
                              = (IF after[i].verified # before[i].verified THEN 1 ELSE 0)
                         /\ \A n \in 1..Len(NotificationsFor(events', before[i].id)) :
                              NotificationsFor(events', before[i].id)[n].verified
                                = after[i].verified ]_vars

\* The number of words of the lines l.. of a text.
RECURSIVE WordCount(_, _)
WordCount(lines, l) ==
    IF l >= Len(lines) THEN 0
    ELSE Len(GetWords(l, At(lines, l))) + WordCount(lines, l + 1)

\* The instruction stream and the starts/ends arrays describe the text: one
\* range per line, the ranges laid end to end from 0, one instruction per word.
IndexDescribes(lines) ==
    /\ Len(starts) = Len(lines)
    /\ Len(ends) = Len(lines)
    /\ Len(instructions) = WordCount(lines, 0)
    /\ \A l \in 0..Len(lines) - 1 :
         /\ At(starts, l) = (IF l = 0 THEN 0 ELSE At(ends, l - 1))
         /\ At(ends, l) = At(starts, l) + Len(GetWords(l, At(lines, l)))

\* C14: LoadSource resets the execution state whatever it was before:
\* afterwards the loaded path is the source, currentLine = 0, currentColumn is
\* unset, the instruction pointer is starts[0] (0 without lines), paused is
\* false, and the instruction stream describes only the loaded text; this
\* holds too when the same path is loaded again.
C14_LoadResets ==
    (Called("LoadSource") /\ ~raised)
        => /\ sourceFile = lastOp.args[1]
           /\ currentLine = 0
           /\ currentColumn = {}
           /\ instruction = (IF Len(starts) > 0 THEN At(starts, 0) ELSE 0)
           /\ ~paused
           /\ IndexDescribes(sourceLines)

SteppingOps == {"Continue", "Next", "StepIn", "StepOut", "Pause"}

\* C15: Continue, Next, StepIn, StepOut and Pause are total: called in any
\* reachable state, also before a source is loaded or after an empty document
\* was loaded, each completes without raising and, on a document without
\* text, emits no output but an empty line's.
C15_SteppingIsTotal ==
    (lastOp.name \in SteppingOps)
        => /\ ~raised
           /\ ~SourceLoaded
                => \A i \in 1..Len(Outputs(events)) : Outputs(events)[i].text = ""

\* ------------------------------------------------------ side-by-side runs
\* One call made on the engine e of implementation i.
Run(i, e, op) ==
    CASE op.name = "LoadSource" ->
            (CASE i = "cs" -> LoadSourceAsync(e, files, op.args[1])
               [] i = "go" -> GoLoadSource(e, files, op.args[1])
               [] i = "ts" -> TsLoadSource(e, files, op.args[1]))
      [] op.name = "Continue" ->
            (CASE i = "cs" -> ContinueAsync(e, op.args[1])
               [] i = "go" -> GoContinue(e, op.args[1])
               [] i = "ts" -> TsContinue(e, op.args[1]))
      [] op.name = "Next" ->
            (CASE i = "cs" -> Next(e, op.args[1])
               [] i = "go" -> GoNext(e, op.args[1])
               [] i = "ts" -> TsStep(e, op.args[1]))
      [] op.name = "Pause" ->
            (CASE i = "cs" -> Pause(e)
               [] i = "go" -> GoPause(e)
               [] i = "ts" -> TsPause(e))
      [] op.name = "SetExceptionsFilters" ->
            SetExceptionsFilters(e, op.args[1], op.args[2])

\* The same call made on the three engines.
PeersDo(op) ==
    /\ peers' = [i \in Impls |->
                   Run(i, [peers[i] EXCEPT !.out = << >>, !.ret = FALSE, !.raised = FALSE], op)]
    /\ lastOp' = op
    /\ hist' = [hist EXCEPT !.tick = 1 - @]
    /\ UNCHANGED << impl, files, sourceFile, sourceLines, currentLine, currentColumn,
                    instructions, starts, ends, instruction, paused, bps, bpLists,
                    bpKeys, nextBpId, instructionBreakpoints, breakAddresses,
                    namedException, otherExceptions, variables, locals, events,
                    raised, result, host >>

PeersLoadSource == \E path \in BpPaths : PeersDo(Op("LoadSource", << path >>))
PeersContinue == \E reverse \in BOOLEAN : PeersDo(Op("Continue", << reverse >>))
PeersNext == \E reverse \in BOOLEAN : PeersDo(Op("Next", << reverse >>))
PeersPause == PeersDo(Op("Pause", << >>))
PeersSetExceptionsFilters ==
    \E named \in Filters, other \in BOOLEAN :
        PeersDo(Op("SetExceptionsFilters", << named, other >>))

\* The three engines driven side by side by the same calls.
NextPeers ==
    \/ PeersLoadSource
    \/ PeersContinue
    \/ PeersNext
    \/ PeersPause
    \/ PeersSetExceptionsFilters

SpecPeers == Init /\ [][NextPeers]_vars

PeersLoaded == \A i \in Impls : Len(peers[i].sourceLines) > 0 /\ ~peers[i].raised

\* C16: the C#, Go and TypeScript engines are observationally equivalent:
\* given the same source and the same sequence of calls, each call makes the
\* three engines emit the same sequence of stop, output and end events, with
\* the same reasons, lines and columns.
C16_EnginesEquivalent ==
    PeersLoaded => \A i, j \in Impls : peers[i].out = peers[j].out


\* C19: SetInstructionBreakpoint(address) and SetDataBreakpoint(name, mode)
\* return true for every argument, an address or name that is registered
\* already included, and after the call the address or the name is registered.
C19_SettersReturnTrue ==
    /\ Called("SetInstructionBreakpoint")
         => result = TRUE /\ lastOp.args[1] \in instructionBreakpoints
    /\ Called("SetDataBreakpoint")
         => result = TRUE /\ breakAddresses[lastOp.args[1]] # ""


\* ------------------------------------------------------- unreadable files
\* The files that may become unreadable (removed, or access denied) and
\* readable again between two calls.
Removable == {"/b/x.md"}

\* The file system makes a file unreadable.
FileRemoved ==
    \E p \in Removable :
        /\ files[p] # NoFile
        /\ files' = [files EXCEPT ![p] = NoFile]
        /\ UNCHANGED << impl, sourceFile, sourceLines, currentLine, currentColumn,
                        instructions, starts, ends, instruction, paused, bps, bpLists,
                        bpKeys, nextBpId, instructionBreakpoints, breakAddresses,
                        namedException, otherExceptions, variables, locals, events,
                        raised, result, lastOp, peers, host, hist >>

\* The file is readable again, with the text it had.
FileRestored ==
    \E p \in Removable :
        /\ files[p] = NoFile
        /\ files' = [files EXCEPT ![p] = InitialFiles[p]]
        /\ UNCHANGED << impl, sourceFile, sourceLines, currentLine, currentColumn,
                        instructions, starts, ends, instruction, paused, bps, bpLists,
                        bpKeys, nextBpId, instructionBreakpoints, breakAddresses,
                        namedException, otherExceptions, variables, locals, events,
                        raised, result, lastOp, peers, host, hist >>

\* Loading and breakpoints over a file system whose files come and go.
NextFiles ==
    \/ LoadSourceOp
    \/ SetBreakpointsOp
    \/ FileRemoved
    \/ FileRestored

SpecFiles == Init /\ [][NextFiles]_vars

\* An engine as its constructor leaves it.
NewEngine ==
    [ sourceFile |-> "", sourceLines |-> << >>,
      currentLine |-> 0, currentColumn |-> {},
      instructions |-> << >>, starts |-> << >>, ends |-> << >>,
      instruction |-> 0, paused |-> FALSE,
      bps |-> [p \in Paths |-> 0],
      bpLists |-> [i \in 1..Cardinality(Paths) |-> << >>],
      bpKeys |-> << >>, nextBpId |-> 1,
      instructionBreakpoints |-> {},
      breakAddresses |-> NoBreakAddresses,
      namedException |-> {}, otherExceptions |-> FALSE,
      variables |-> {}, locals |-> {},
      out |-> << >>, ret |-> FALSE, raised |-> FALSE ]

\* The lines an engine holds after it read the readable file p.
LinesRead(p) == Run(impl, NewEngine, Op("LoadSource", << p >>)).sourceLines

\* C20: a LoadSource that fails because the file cannot be read fails that
\* operation only: it raises, and the source path, the lines, the instruction
\* stream, the cursor and the breakpoint registry are what they were before
\* the call; and a LoadSource of a readable file, also one whose earlier load
\* failed, reads the file and loads it.
C20_FailedLoadChangesNothing ==
    [][ (lastOp'.name = "LoadSource" /\ hist'.tick # hist.tick) =>
          LET p == lastOp'.args[1] IN
          /\ files[p] = NoFile =>
                /\ raised'
                /\ UNCHANGED << sourceFile, sourceLines, instructions, starts, ends,
                                instruction, currentLine, currentColumn, bps, bpLists,
                                bpKeys, nextBpId >>
          /\ files[p] # NoFile =>
                /\ ~raised'
                /\ sourceFile' = p
                /\ sourceLines' = LinesRead(p) ]_vars


\* ------------------------------------------------------ command-line hosts
\* The hosts read one request per line and write responses and events on the
\* same stream.  MaxRunning caps the Continue calls started beside the
\* dispatcher and not yet finished.
MaxRunning == 1

OkMsg == [type |-> "response", success |-> TRUE]
FailMsg == [type |-> "response", success |-> FALSE]

\* Respond(output, Protocol.Ok(...)): responses and events go to one stream,
\* so a response is written into out, among the events.
Respond(e, msg) == Emit(e, msg)

\* catch (Exception ex) of the dispatcher loops of C# and TS: a failure
\* response after whatever was written
Caught(e) == [e EXCEPT !.out = IF e.raised THEN Append(@, FailMsg) ELSE @]

\* Respond unless the call before it threw.
ThenOk(e) == [e EXCEPT !.out = Append(@, IF e.raised THEN FailMsg ELSE OkMsg)]

\* RunDispatcherAsync, one request.  e.out is empty on entry.
RunDispatcher(e, req) ==
    CASE req.name = "attach" ->
            IF req.args[1] THEN Caught(Pause(Respond(e, OkMsg))) ELSE Respond(e, OkMsg)
      [] req.name = "launch" ->
            LET e1 == ThenOk(LoadSourceAsync(e, files, req.args[1])) IN
            IF e1.raised THEN e1
            ELSE IF req.args[2] THEN Emit(e1, StopEv("entry", 0, {}, {}))
            ELSE Caught(ContinueAsync(e1, FALSE))
      [] req.name = "setBreakpoints" ->
            ThenOk(SetBreakpoints(e, req.args[1], req.args[2]))
      [] req.name = "continue" ->
            Caught(ContinueAsync(Respond(e, OkMsg), req.args[1]))
      [] req.name = "disconnect" -> Respond(e, OkMsg)
      [] req.name = "pause" -> Caught(Pause(Respond(e, OkMsg)))
      [] req.name = "next" -> Caught(Next(Respond(e, OkMsg), req.args[1]))
      [] req.name = "stepIn" -> Caught(StepIn(Respond(e, OkMsg), req.args[1]))
      [] req.name = "stepOut" -> Caught(StepOut(Respond(e, OkMsg)))

\* handleConn, one request.  `go eng.Continue(reverse)` starts the call
\* beside the loop (Started); a panic ends the process.
GoHandleConn(e, req) ==
    CASE req.name = "attach" ->
            IF req.args[1] THEN GoPause(Respond(e, OkMsg)) ELSE Respond(e, OkMsg)
      [] req.name = "launch" ->
            IF files[req.args[1]] = NoFile THEN Respond(e, FailMsg)
            ELSE IF req.args[2]
            THEN Emit(Respond(GoLoadSource(e, files, req.args[1]), OkMsg),
                      StopEv("entry", 0, {}, {}))
            ELSE Respond(GoLoadSource(e, files, req.args[1]), OkMsg)
      [] req.name = "setBreakpoints" ->
            LET e1 == GoSetBreakpoints(e, req.args[1], req.args[2]) IN
            IF e1.raised THEN e1 ELSE Respond(e1, OkMsg)
      [] req.name = "continue" -> Respond(e, OkMsg)
      [] req.name = "disconnect" -> Respond(e, OkMsg)
      [] req.name = "pause" -> GoPause(Respond(e, OkMsg))
      [] req.name = "next" -> GoNext(Respond(e, OkMsg), req.args[1])
      [] req.name = "stepIn" -> GoStepIn(Respond(e, OkMsg), req.args[1])
      [] req.name = "stepOut" -> GoStepOut(Respond(e, OkMsg))

\* start(program, stopOnEntry, true)
TsStart(e, fs, program, stopOnEntry) ==
    LET e1 == TsLoadSource(e, fs, program) IN
    IF e1.raised THEN e1
    ELSE LET e2 == TsVerifyBreakpoints(e1, fs, e1.sourceFile) IN
         IF e2.raised THEN e2
         ELSE IF stopOnEntry
         THEN Emit(e2, StopEv("entry", e2.currentLine, e2.currentColumn, {}))
         ELSE TsContinue(e2, FALSE)

\* rl.on('line', ...) of handleConnection, one request.  setImmediate(() =>
\* runtime.continue(reverse)) queues the call (Started).
TsHandleConnection(e, fs, req) ==
    CASE req.name = "attach" ->
            IF req.args[1] THEN Caught(TsPause(Respond(e, OkMsg))) ELSE Respond(e, OkMsg)
      [] req.name = "launch" -> ThenOk(TsStart(e, fs, req.args[1], req.args[2]))
      [] req.name = "setBreakpoints" ->
            ThenOk(TsSetBreakpoints(e, fs, req.args[1], req.args[2]))
      [] req.name = "continue" -> Respond(e, OkMsg)
      [] req.name = "disconnect" -> Respond(e, OkMsg)
      [] req.name = "pause" -> Caught(TsPause(Respond(e, OkMsg)))
      [] req.name = "next" -> Caught(TsStep(Respond(e, OkMsg), req.args[1]))
      [] req.name = "stepIn" -> Caught(TsStepIn(Respond(e, OkMsg), req.args[1]))
      [] req.name = "stepOut" -> Caught(TsStepOut(Respond(e, OkMsg)))

\* The Continue calls a request starts beside the dispatcher: the goroutines
\* of the Go host and the setImmediate callbacks of the TS host.
Started(req) ==
    IF \/ impl \in {"go", "ts"} /\ req.name = "continue"
    THEN << [reverse |-> req.args[1], started |-> FALSE, polled |-> FALSE] >>
    ELSE IF /\ impl = "go" /\ req.name = "launch"
            /\ files[req.args[1]] # NoFile /\ ~req.args[2]
    THEN << [reverse |-> FALSE, started |-> FALSE, polled |-> FALSE] >>
    ELSE << >>

\* A pass of the loop of Continue after its check of the paused flag.
GoContinuePass(e, reverse) ==
    LET e1 == GoExecuteLine(e, e.currentLine, reverse) IN
    IF e1.raised \/ e1.ret THEN [e1 EXCEPT !.ret = TRUE]
    ELSE LET e2 == GoUpdateCurrentLine(e1, reverse) IN
         IF e2.ret THEN Emit(e2, EndEv)
         ELSE LET e3 == GoFindNextStatement(e2, reverse) IN
              [e3 EXCEPT !.ret = e3.raised \/ e3.ret]

\* One pass of the loop of Continue; ret tells that Continue returned.
GoContinueIter(e, reverse) ==
    IF e.paused
    THEN [Emit([e EXCEPT !.paused = FALSE],
               StopEv("pause", e.currentLine, e.currentColumn, {})) EXCEPT !.ret = TRUE]
    ELSE GoContinuePass(e, reverse)

\* RunServerAsync, from AcceptTcpClientAsync to the dispatcher: the engine is
\* the one of the earlier connections.
RunServerAsync(e, h) ==
    IF h.stopOnEntry THEN Emit(e, StopEv("entry", 0, {}, {})) ELSE ContinueAsync(e, FALSE)

\* handleConn, from en.New to the scanner loop: an engine of its own
GoHandleConnStart(h) ==
    IF h.program = "" \/ files[h.program] = NoFile THEN NewEngine
    ELSE IF h.stopOnEntry
    THEN Emit(GoLoadSource(NewEngine, files, h.program), StopEv("entry", 0, {}, {}))
    ELSE GoLoadSource(NewEngine, files, h.program)

\* handleConnection, from new MockRuntime to rl.on: a runtime of its own
TsHandleConnectionStart(h) ==
    IF h.program = "" THEN NewEngine
    ELSE TsStart(NewEngine, files, h.program, h.stopOnEntry)

HostRuns == host.mode \in {"stdio", "server"}

\* A step of the host that leaves the engine alone.
EngineUnchanged ==
    UNCHANGED << impl, files, sourceFile, sourceLines, currentLine, currentColumn,
                 instructions, starts, ends, instruction, paused, bps, bpLists,
                 bpKeys, nextBpId, instructionBreakpoints, breakAddresses,
                 namedException, otherExceptions, variables, locals, events,
                 raised, result, lastOp, peers, hist >>

\* The state after the host ran e: what was written is appended to the
\* reply; an exception that nothing catches, and the end of the only
\* connection of a host on standard input, end the process.
HostStep(e, op, h, spawn, uncaught, open) ==
    /\ Store(Void(e), op)
    /\ host' = [h EXCEPT !.request = NoRequest,
                         !.reply = @ \o e.out,
                         !.conts = @ \o spawn,
                         !.connected = open /\ ~(uncaught /\ e.raised),
                         !.mode = IF (uncaught /\ e.raised) \/ (~open /\ h.mode = "stdio")
                                  THEN "exited" ELSE @]
    /\ UNCHANGED peers

Programs == {"/a/x.md"}

\* The clients of the hosts run forwards; reverse runs are made on the engine.
ClientReverse == {FALSE}

\* The host started on standard input and output.
StartStdio ==
    /\ host.mode = ""
    /\ host' = [host EXCEPT !.mode = "stdio", !.connected = TRUE]
    /\ EngineUnchanged

\* The host started with --server; the C# server loads its program first.
StartServer ==
    \E program \in Programs \cup {""}, stopOnEntry \in BOOLEAN :
        /\ host.mode = ""
        /\ impl = "cs" => program # ""
        /\ Store(Void(IF impl = "cs" THEN LoadSourceAsync(Engine, files, program)
                      ELSE Engine),
                 Op("server", << program, stopOnEntry >>))
        /\ host' = [host EXCEPT !.mode = "server", !.program = program,
                                !.stopOnEntry = stopOnEntry]
        /\ UNCHANGED peers

\* A client connects to the server.
Accept ==
    /\ host.mode = "server"
    /\ ~host.connected
    /\ HostStep(CASE impl = "cs" -> RunServerAsync(Engine, host)
                  [] impl = "go" -> GoHandleConnStart(host)
                  [] impl = "ts" -> TsHandleConnectionStart(host),
                Op("accept", << >>),
                [host EXCEPT !.connected = TRUE, !.reply = << >>,
                             !.conts = IF impl = "cs" THEN @ ELSE << >>],
                IF impl = "go" /\ host.program # "" /\ ~host.stopOnEntry
                THEN << [reverse |-> FALSE, started |-> FALSE, polled |-> FALSE] >> ELSE << >>,
                TRUE, TRUE)

\* The client writes a request; the host has read the earlier ones.
Send(req) ==
    /\ HostRuns
    /\ host.connected
    /\ host.request.name = ""
    /\ host' = [host EXCEPT !.request = req, !.reply = << >>]
    /\ EngineUnchanged

MayStart == impl = "cs" \/ Len(host.conts) < MaxRunning

SendAttach == \E stopOnAttach \in BOOLEAN : Send(Op("attach", << stopOnAttach >>))

SendLaunch ==
    \E program \in Programs, stopOnEntry \in BOOLEAN :
        MayStart /\ Send(Op("launch", << program, stopOnEntry >>))

SendSetBreakpoints ==
    \E lines \in {<< 1 >>} :
        /\ nextBpId + Len(lines) <= MaxBpId + 1
        /\ Send(Op("setBreakpoints", << "/a/x.md", lines >>))

SendContinue == \E reverse \in ClientReverse : MayStart /\ Send(Op("continue", << reverse >>))

SendPause == Send(Op("pause", << >>))

SendNext == \E reverse \in ClientReverse : Send(Op("next", << reverse >>))

SendStepIn == (\A c \in currentColumn : c <= MaxColumn) /\ Send(Op("stepIn", << {} >>))

SendStepOut == (\A c \in currentColumn : c >= 0 - MaxColumn) /\ Send(Op("stepOut", << >>))

SendDisconnect == Send(Op("disconnect", << >>))

\* The dispatcher handles the request it read.
Handle ==
    /\ HostRuns
    /\ host.connected
    /\ host.request.name # ""
    /\ HostStep(CASE impl = "cs" -> RunDispatcher(Engine, host.request)
                  [] impl = "go" -> GoHandleConn(Engine, host.request)
                  [] impl = "ts" -> TsHandleConnection(Engine, files, host.request),
                host.request, host, Started(host.request),
                impl = "go", host.request.name # "disconnect")

Finished(s, i) == SubSeq(s, 1, i - 1) \o SubSeq(s, i + 1, Len(s))

\* The goroutine of a Continue enters the method: the instruction is
\* normalised and the paused flag cleared.
GoContinueStart ==
    \E i \in 1..Len(host.conts) :
        /\ impl = "go"
        /\ HostRuns
        /\ ~host.conts[i].started
        /\ Store(Void([Normalize(Engine, host.conts[i].reverse) EXCEPT !.paused = FALSE]),
                 Op("go Continue", << host.conts[i].reverse >>))
        /\ host' = [host EXCEPT !.conts[i].started = TRUE]
        /\ UNCHANGED peers

\* The goroutine makes one pass of the loop, beside the dispatcher.
GoContinueStep ==
    \E i \in 1..Len(host.conts) :
        /\ impl = "go"
        /\ HostRuns
        /\ host.conts[i].started
        /\ LET e1 == GoContinueIter(Engine, host.conts[i].reverse) IN
           /\ Store(Void(e1), Op("go Continue", << host.conts[i].reverse >>))
           /\ host' = [host EXCEPT !.reply = @ \o e1.out,
                                   !.conts = IF e1.ret THEN Finished(@, i) ELSE @,
                                   !.connected = @ /\ ~e1.raised,
                                   !.mode = IF e1.raised THEN "exited" ELSE @]
        /\ UNCHANGED peers

\* The callback of setImmediate runs continue(reverse) to its end.
TsImmediate ==
    /\ impl = "ts"
    /\ HostRuns
    /\ host.conts # << >>
    /\ LET e1 == TsContinue(Engine, host.conts[1].reverse) IN
       /\ Store(Void(e1), Op("setImmediate", << host.conts[1].reverse >>))
       /\ host' = [host EXCEPT !.reply = @ \o e1.out,
                               !.conts = Tail(@),
                               !.connected = @ /\ ~e1.raised,
                               !.mode = IF e1.raised THEN "exited" ELSE @]
    /\ UNCHANGED peers

\* A debugging session on standard input and output.
NextHost ==
    \/ StartStdio
    \/ SendLaunch
    \/ SendSetBreakpoints
    \/ SendContinue
    \/ SendPause
    \/ SendNext
    \/ SendStepIn
    \/ SendStepOut
    \/ Handle
    \/ GoContinueStart
    \/ GoContinueStep
    \/ TsImmediate

SpecHost == Init /\ [][NextHost]_vars

\* A server and its successive clients, which pause and resume.
NextServer ==
    \/ StartServer
    \/ Accept
    \/ SendAttach
    \/ SendContinue
    \/ SendPause
    \/ SendDisconnect
    \/ Handle
    \/ GoContinueStart
    \/ GoContinueStep
    \/ TsImmediate

SpecServer == Init /\ [][NextServer]_vars



\* A Continue entered its method and has not returned.
ContinueRunning == \E i \in 1..Len(host.conts) : host.conts[i].started

EngineCommands == {"continue", "next", "stepIn", "stepOut", "pause", "setBreakpoints"}

\* C17: the engine's operations are serialized by the caller: the dispatcher
\* never starts handling continue, next, stepIn, stepOut, pause or
\* setBreakpoints while an earlier Continue on the same engine is running.
C17_OperationsSerialized ==
    [][ (host.request.name \in EngineCommands /\ host'.request.name = "")
            => ~ContinueRunning ]_vars

\* The last step handled a pause request or an attach request with
\* stopOnAttach.
PauseHandled ==
    /\ host.request.name = ""
    /\ \/ lastOp.name = "pause"
       \/ lastOp.name = "attach" /\ lastOp.args[1]

\* The messages written since the request was sent hold an OK response and,
\* after it, a stopped event with reason pause.
PauseAnswered ==
    \E i, j \in 1..Len(host.reply) :
        /\ i < j
        /\ host.reply[i].type = "response" /\ host.reply[i].success
        /\ host.reply[j].type = "stopped" /\ host.reply[j].reason = "pause"

\* C18: every pause request, and every attach request with stopOnAttach, is
\* answered by an OK response followed by a stopped event with reason pause,
\* whatever the state of the engine, after an earlier pause and for a later
\* client of the same server included: once the request is handled and no
\* Continue runs beside the dispatcher, both messages have been written.
C18_PauseAnswered ==
    (PauseHandled /\ host.conts = << >>) => PauseAnswered

\* ================================================================== queries
\* Operations that read the engine and change nothing.

DigitChars == << "0", "1", "2", "3", "4", "5", "6", "7", "8", "9" >>

RECURSIVE Itoa(_)
\* strconvItoa, `global_${i}`: the decimal digits of i >= 0
Itoa(i) ==
    IF i = 0 THEN "0"
    ELSE IF i < 10 THEN DigitChars[i + 1]
    ELSE Itoa(i \div 10) \o DigitChars[(i % 10) + 1]

GlobalVariable(i) == [name |-> "global_" \o Itoa(i), value |-> i]

\* C#: the iterator ends at once (yield break)
GetGlobalVariables(e) == [e EXCEPT !.ret = << >>]

GoGetGlobalVariables(e) == [e EXCEPT !.ret = [i \in 1..10 |-> GlobalVariable(i - 1)]]

\* token: {} without a cancellation token, {k} for a token that answers true
\* the k-th time it is asked; it is asked after every entry.
TsGetGlobalVariables(e, token) ==
    LET n == IF token = {} THEN 10 ELSE Min(10, CHOOSE k \in token : TRUE) IN
    [e EXCEPT !.ret = [i \in 1..n |-> GlobalVariable(i - 1)]]

\* GetLine(line): the index is clamped into the document
GetLine(e, line) == At(e.sourceLines, Clamp(line, 0, Len(e.sourceLines) - 1))

RECURSIVE LongWordColumns(_, _)
\* words.Where(w => w.Name.Length > 8).Select(w => w.Index)
LongWordColumns(words, i) ==
    IF i > Len(words) THEN << >>
    ELSE (IF Len(words[i].name) > 8 THEN << words[i].index >> ELSE << >>)
         \o LongWordColumns(words, i + 1)

GetBreakpointColumns(e, path, line) ==
    IF Len(e.sourceLines) = 0 THEN [e EXCEPT !.ret = << >>]
    ELSE [e EXCEPT !.ret = LongWordColumns(GetWords(line, GetLine(e, line)), 1)]

GoGetBreakpointColumns(e, path, line) ==
    [e EXCEPT !.ret = LongWordColumns(GetWords(line, GoGetLine(e, line)), 1)]

\* getBreakpoints
TsGetBreakpoints(e, path, line) ==
    [e EXCEPT !.ret = LongWordColumns(GetWords(line, TsGetLine(e, line)), 1)]

Tokens == {{}, {3}}
QueryLines == {0 - 1, 2, 4, 7}

GetGlobalVariablesOp ==
    \E token \in Tokens :
        /\ token # {} => impl = "ts"
        /\ Commit(CASE impl = "cs" -> GetGlobalVariables(Engine)
                    [] impl = "go" -> GoGetGlobalVariables(Engine)
                    [] impl = "ts" -> TsGetGlobalVariables(Engine, token),
                  Op("GetGlobalVariables", << token >>))

GetBreakpointColumnsOp ==
    \E path \in BpPaths, line \in QueryLines :
        Commit(CASE impl = "cs" -> GetBreakpointColumns(Engine, path, line)
                 [] impl = "go" -> GoGetBreakpointColumns(Engine, path, line)
                 [] impl = "ts" -> TsGetBreakpoints(Engine, path, line),
               Op("GetBreakpointColumns", << path, line >>))

NextQuery ==
    \/ LoadSourceOp
    \/ NextOp
    \/ GetGlobalVariablesOp
    \/ GetBreakpointColumnsOp

SpecQuery == Init /\ [][NextQuery]_vars

\* C21: GetGlobalVariables returns the ten entries global_0 .. global_9 with
\* the values 0 .. 9, in that order, whatever the engine's state and whatever
\* was called before.
C21_TenGlobals ==
    lastOp.name = "GetGlobalVariables" =>
        result = << [name |-> "global_0", value |-> 0], [name |-> "global_1", value |-> 1],
                    [name |-> "global_2", value |-> 2], [name |-> "global_3", value |-> 3],
                    [name |-> "global_4", value |-> 4], [name |-> "global_5", value |-> 5],
                    [name |-> "global_6", value |-> 6], [name |-> "global_7", value |-> 7],
                    [name |-> "global_8", value |-> 8], [name |-> "global_9", value |-> 9] >>

\* The offsets of the words longer than 8 letters of line l of the loaded
\* document.
LongWordOffsets(l) ==
    {w.index : w \in {GetWords(l, At(sourceLines, l))[k] :
                        k \in {j \in 1..Len(GetWords(l, At(sourceLines, l))) :
                                 Len(GetWords(l, At(sourceLines, l))[j].name) > 8}}}

\* C22: GetBreakpointColumns(path, line) returns, from left to right, the
\* start offsets of the words longer than 8 letters of that line and nothing
\* else; it returns the empty list for a line outside the loaded document and
\* when no source is loaded.
C22_LongWordColumns ==
    lastOp.name = "GetBreakpointColumns" =>
        LET line == lastOp.args[2] IN
        IF InRange(sourceLines, line)
        THEN /\ {result[i] : i \in 1..Len(result)} = LongWordOffsets(line)
             /\ \A i, j \in 1..Len(result) : i < j => result[i] < result[j]
        ELSE result = << >>

\* The outputs of line l among the events, as (category, text, line).
OutputsOfLine(evs, l) ==
    OutputTriples(SelectSeq(evs, LAMBDA ev : ev.type = "output" /\ ev.line = l))

\* C23: the four checks of executeLine run in order and end at the first that
\* fires: a call that stops on a line with reason instructionBreakpoint or
\* dataBreakpoint has emitted no output of that line; a call that stops on a
\* line with reason exception has emitted, before that stop and from left to
\* right, one output for every func(payload) token of the line.
C23_ChecksInOrder ==
    (Called("Continue") \/ Called("Next")) =>
        \A i \in 1..Len(events) :
            (events[i].type = "stopped" /\ events[i].line # {}) =>
                LET l == CHOOSE x \in events[i].line : TRUE IN
                /\ events[i].reason \in {"instructionBreakpoint", "dataBreakpoint"}
                      => OutputsOfLine(events, l) = << >>
                /\ (events[i].reason = "exception" /\ InRange(sourceLines, l))
                      => OutputsOfLine(SubSeq(events, 1, i - 1), l)
                           = LogTokensOfLine(At(sourceLines, l).toks, l)

\* a call that stopped on an exception of a line after that line's two outputs
C23_Witness ==
    /\ Called("Continue")
    /\ \E i \in 1..Len(events) :
          /\ events[i].type = "stopped"
          /\ events[i].reason = "exception"
          /\ \E l \in events[i].line : Len(OutputsOfLine(SubSeq(events, 1, i - 1), l)) >= 2

\* C24: the instruction-breakpoint scan of line L visits the addresses of
\* [starts[L], ends[L]) and no other: a call that ends with an
\* instructionBreakpoint stop on line L has its instruction pointer on a
\* registered address of that range, and a Continue or Next that executes a
\* line L holding a registered address of that range, in either direction,
\* stops first with reason instructionBreakpoint on line L.
C24_ScanVisitsLineRange ==
    [][ ( /\ lastOp'.name \in {"Continue", "Next"}
          /\ hist'.tick # hist.tick
          /\ ~raised' )
        => ( /\ ( /\ events' # << >>
                  /\ events'[Len(events')].type = "stopped"
                  /\ events'[Len(events')].reason = "instructionBreakpoint" )
                => \A l \in events'[Len(events')].line :
                      InRange(starts', l) =>
                          /\ instruction' \in instructionBreakpoints'
                          /\ At(starts', l) <= instruction'
                          /\ instruction' < At(ends', l)
             /\ ( /\ InRange(starts, currentLine)
                  /\ \E a \in instructionBreakpoints :
                        At(starts, currentLine) <= a /\ a < At(ends, currentLine) )
                => /\ Stops(events') # << >>
                   /\ Stops(events')[1].reason = "instructionBreakpoint"
                   /\ Stops(events')[1].line = {currentLine} ) ]_vars

\* Running under source breakpoints: SetBreakpoints with one line at a time.
MaxRunBpId == 2       \* the one-line SetBreakpoints is not taken once the id counter passed this

SetBreakpointsAtOp ==
    \E path \in BpPaths, line \in BpLines :
        /\ nextBpId <= MaxRunBpId
        /\ LET e == DoSetBreakpoints(path, << line >>) IN
           Commit([e EXCEPT !.ret = IF e.raised \/ ~HasKey(e, path) THEN << >>
                                    ELSE ListOf(e, path)],
                  Op("SetBreakpoints", << path, << line >> >>))

NextRun ==
    \/ LoadSourceOp
    \/ SetBreakpointsAtOp
    \/ ContinueOp
    \/ NextOp

SpecRun == Init /\ [][NextRun]_vars

\* The breakpoints registered for the current source.
Registered == IF sourceFile \in Paths THEN BreakpointsOf(bps, bpLists, sourceFile) ELSE << >>
RegisteredAt(l) == \E i \in 1..Len(Registered) : Registered[i].line = l

\* Line ln is the first line the statement scan stops at, and it carries a
\* registered breakpoint: the cursor moves one line from currentLine, and every
\* line from there up to ln, ln left out, is blank and carries no breakpoint.
ScanMeetsBreakpoint(reverse, ln) ==
    LET from == IF reverse THEN currentLine - 1 ELSE currentLine + 1 IN
    /\ InRange(sourceLines, currentLine)
    /\ InRange(sourceLines, from)
    /\ InRange(sourceLines, ln)
    /\ IF reverse THEN ln <= from ELSE ln >= from
    /\ RegisteredAt(ln)
    /\ \A l \in 0..(Len(sourceLines) - 1) :
          ((IF reverse THEN l <= from /\ l > ln ELSE l >= from /\ l < ln))
              => (IsBlank(At(sourceLines, l)) /\ ~RegisteredAt(l))

\* C25: a Continue whose statement scan, after the cursor moved, meets a line
\* with a breakpoint registered for the current source halts on that line with
\* one stop of reason breakpoint and without executing the line; a breakpoint
\* that was unverified is stored as verified and notified exactly once, and
\* one that was verified already is not notified again.
C25_ScanStopsOnBreakpoint ==
    [][ ( /\ lastOp'.name = "Continue"
          /\ hist'.tick # hist.tick )
        => \A ln \in 0..(Len(sourceLines) - 1) :
              ScanMeetsBreakpoint(lastOp'.args[1], ln) =>
                 /\ ~raised'
                 /\ StopReasons(events') = << "breakpoint" >>
                 /\ Stops(events')[1].line = {ln}
                 /\ currentLine' = ln
                 /\ OutputsOfLine(events', ln) = << >>
                 /\ \A i \in 1..Len(Registered) :
                       Registered[i].line = ln =>
                          LET after == BreakpointsOf(bps', bpLists', sourceFile)
                              n == Len(NotificationsFor(events', Registered[i].id))
                          IN  /\ Len(after) = Len(Registered)
                              /\ after[i].id = Registered[i].id
                              /\ after[i].verified
                              /\ n = (IF Registered[i].verified THEN 0 ELSE 1) ]_vars

\* C26: Next emits its step event only when nothing else of the call produced
\* a stop: a step stop is the only stop of its call, and a Next whose
\* statement scan lands on a line with a registered breakpoint emits one stop,
\* of reason breakpoint, on that line.
C26_StepOnlyWithoutOtherStop ==
    [][ ( /\ lastOp'.name = "Next"
          /\ hist'.tick # hist.tick
          /\ ~raised' )
        => /\ HasStop(events', "step") => Len(Stops(events')) = 1
           /\ \A ln \in 0..(Len(sourceLines) - 1) :
                 ScanMeetsBreakpoint(lastOp'.args[1], ln) =>
                    /\ StopReasons(events') = << "breakpoint" >>
                    /\ Stops(events')[1].line = {ln} ]_vars

\* Data breakpoints, assignments and SetVariable.
NextVars ==
    \/ LoadSourceOp
    \/ NextOp
    \/ SetDataBreakpointOp
    \/ SetVariableOp

SpecVars == Init /\ [][NextVars]_vars

\* The names assigned by the tokens 1..i-1 of a line.
WrittenBefore(toks, i) == {toks[j].v : j \in {k \in 1..(i - 1) : toks[k].k = "write"}}

\* Token i of the line is a classified access whose kind the stored mode of
\* its name covers: an assignment to, or a bare reference of, a name that is
\* seen when the token is reached.
ClassifiedMatch(toks, i) ==
    /\ toks[i].k \in {"read", "write"}
    /\ toks[i].v \in variables \cup WrittenBefore(toks, i)
    /\ toks[i].v \in VarNames
    /\ HasMode(breakAddresses[toks[i].v], toks[i].k)

\* C27: an assignment to a seen name is a write, a bare reference of a seen
\* name is a read, and neither an assignment to nor a bare reference of an
\* unseen name is an access; every executed assignment marks its name seen,
\* and nothing else does: not a bare reference, and not SetVariable.
C27_SeenOnlyByAssignment ==
    [][ /\ (lastOp'.name = "SetVariable" /\ hist'.tick # hist.tick)
            => variables' = variables
        /\ ( /\ lastOp'.name = "Next"
             /\ hist'.tick # hist.tick
             /\ ~raised'
             /\ InRange(sourceLines, currentLine) )
            => LET toks == CurrentLineToks
                   stopped == FirstStopOn(events', currentLine, {"dataBreakpoint"})
               IN  /\ variables' \subseteq variables \cup WrittenBefore(toks, Len(toks) + 1)
                   /\ ~stopped => variables' = variables \cup WrittenBefore(toks, Len(toks) + 1)
                   /\ stopped <=> \E i \in 1..Len(toks) : ClassifiedMatch(toks, i) ]_vars

\* C28: a Continue or Next that moves the cursor to another line leaves
\* currentColumn unset and every stop it emits carries no column; only StepIn
\* and StepOut set the column, any other call leaves it as it was or unsets it.
C28_ColumnClearedOnLineChange ==
    [][ /\ ( /\ lastOp'.name \in {"Continue", "Next"}
             /\ hist'.tick # hist.tick
             /\ ~raised'
             /\ currentLine' # currentLine )
           => /\ currentColumn' = {}
              /\ \A i \in 1..Len(Stops(events')) : Stops(events')[i].column = {}
        /\ ( /\ lastOp'.name \notin {"StepIn", "StepOut"}
             /\ hist'.tick # hist.tick )
           => currentColumn' \in {{}, currentColumn} ]_vars

\* Column stepping without step-in targets.
StepInPlainOp ==
    /\ \A c \in currentColumn : c <= MaxColumn
    /\ Commit(Void(DoStepIn({})), Op("StepIn", << {} >>))

NextColumn ==
    \/ LoadSourceOp
    \/ NextOp
    \/ StepInPlainOp
    \/ StepOutOp

SpecColumn == Init /\ [][NextColumn]_vars

\* C29: when StepIn is only called without a target id, a column that is set
\* lies within the current line: 1 <= currentColumn <= length of the line.
C29_ColumnWithinLine ==
    (InRange(sourceLines, currentLine) /\ ~raised) =>
        \A c \in currentColumn :
            1 <= c /\ c <= LineLength(At(sourceLines, currentLine))

\* C30: StepIn, with or without a target, and StepOut emit exactly one event,
\* a step stop that carries the current line and the column the call leaves,
\* and change only the column: the line, the instruction pointer, the
\* breakpoint registry and the variable tables stay as they were.
C30_ColumnStepsEmitOneStep ==
    [][ ( /\ lastOp'.name \in {"StepIn", "StepOut"}
          /\ hist'.tick # hist.tick )
        => /\ events' = << StopEv("step", currentLine, currentColumn', {}) >>
           /\ UNCHANGED << currentLine, instruction, bps, bpLists, bpKeys, nextBpId,
                           variables, locals, sourceFile, sourceLines >> ]_vars

\* C31: Pause called while not paused, on a line of the loaded source, emits
\* two events: an output whose text is the trimmed text of the current line,
\* then a pause stop with the current line and column; it sets paused and
\* leaves the line, the column and the instruction pointer unchanged.
C31_PauseEchoesThenStops ==
    [][ ( /\ lastOp'.name = "Pause"
          /\ hist'.tick # hist.tick
          /\ ~paused
          /\ InRange(sourceLines, currentLine) )
        => /\ Len(events') = 2
           /\ events'[1].type = "output"
           /\ events'[1].text = TrimmedText(At(sourceLines, currentLine))
           /\ events'[2] = StopEv("pause", currentLine, currentColumn, {})
           /\ paused'
           /\ UNCHANGED << currentLine, currentColumn, instruction >> ]_vars

\* ------------------------------------------- the pause check of Go's loop
\* The loop of the Go Continue in two steps, as the dispatcher's goroutine may
\* run Pause between them: the check of the paused flag at the head of the
\* loop, then the rest of the pass.
GoContinuePoll ==
    \E i \in 1..Len(host.conts) :
        /\ impl = "go"
        /\ HostRuns
        /\ host.conts[i].started
        /\ ~host.conts[i].polled
        /\ LET e1 == IF paused THEN GoContinueIter(Engine, host.conts[i].reverse)
                     ELSE [Engine EXCEPT !.ret = FALSE]
           IN  /\ Store(Void(e1), Op("go Continue", << host.conts[i].reverse >>))
               /\ host' = [host EXCEPT !.reply = @ \o e1.out,
                                       !.conts = IF e1.ret THEN Finished(@, i)
                                                 ELSE [@ EXCEPT ![i].polled = TRUE]]
        /\ UNCHANGED peers

\* The pass after the check: the flag is not read again.
GoContinueBody ==
    \E i \in 1..Len(host.conts) :
        /\ impl = "go"
        /\ HostRuns
        /\ host.conts[i].polled
        /\ LET e1 == GoContinuePass(Engine, host.conts[i].reverse) IN
           /\ Store(Void(e1), Op("go Continue", << host.conts[i].reverse >>))
           /\ host' = [host EXCEPT !.reply = @ \o e1.out,
                                   !.conts = IF e1.ret THEN Finished(@, i)
                                             ELSE [@ EXCEPT ![i].polled = FALSE],
                                   !.connected = @ /\ ~e1.raised,
                                   !.mode = IF e1.raised THEN "exited" ELSE @]
        /\ UNCHANGED peers

\* A session on standard input and output whose client launches and pauses.
NextPoll ==
    \/ StartStdio
    \/ SendLaunch
    \/ SendSetBreakpoints
    \/ SendContinue
    \/ SendPause
    \/ Handle
    \/ GoContinueStart
    \/ GoContinuePoll
    \/ GoContinueBody
    \/ TsImmediate

SpecPoll == Init /\ [][NextPoll]_vars

\* Pause was called while the loop of a Continue runs: the flag, which the
\* Continue cleared when it began, is set and the loop has not read it yet.
PausedWhileRunning == paused /\ \E i \in 1..Len(host.conts) : host.conts[i].started

\* C32: Continue reads the paused flag once per pass of its loop: once Pause
\* was called while the loop runs, the Continue returns at its next check of
\* the flag, and from the call of Pause on it emits neither a breakpoint stop
\* nor the end event.
C32_PauseHaltsContinue ==
    [][ ( /\ PausedWhileRunning
          /\ lastOp'.name = "go Continue"
          /\ hist'.tick # hist.tick )
        => /\ \A k \in 1..Len(events') :
                 /\ events'[k].type # "terminated"
                 /\ events'[k].type = "stopped" => events'[k].reason # "breakpoint"
           /\ (\E i \in 1..Len(host.conts) : host.conts[i].started /\ ~host.conts[i].polled)
                 => Len(host'.conts) < Len(host.conts) ]_vars

\* C36: in the Go engine a Pause call leads to at most one pause stop: when
\* the handled pause request has emitted its pause stop, the pass of a
\* Continue loop that runs next on the engine emits no pause stop for it.
C36_OnePauseStopPerPause ==
    [][ ( /\ impl = "go"
          /\ lastOp.name = "pause"
          /\ HasStop(events, "pause")
          /\ lastOp'.name = "go Continue"
          /\ hist'.tick # hist.tick )
        => ~HasStop(events', "pause") ]_vars

\* ----------------------------------------------------- passes of Continue
\* One pass of the while (true) of ContinueAsync; ret tells that the call
\* returned.
ContinueIter(e, reverse) ==
    LET e1 == ExecuteLine(e, e.currentLine, reverse) IN
    IF e1.raised \/ e1.ret THEN [e1 EXCEPT !.ret = TRUE]
    ELSE LET e2 == UpdateCurrentLine(e1, reverse) IN
         IF e2.ret THEN Emit(e2, EndEv)
         ELSE LET e3 == FindNextStatement(e2, reverse) IN
              IF e3.raised THEN [e3 EXCEPT !.ret = TRUE]
              ELSE IF e3.ret
              THEN Emit(e3, StopEv("breakpoint", e3.currentLine, e3.currentColumn, {}))
              ELSE e3

\* One pass of the while loop of continue(reverse).
TsContinueIter(e, reverse) ==
    LET e1 == TsExecuteLine(e, e.currentLine, reverse) IN
    IF e1.ret THEN e1
    ELSE LET e2 == TsUpdateCurrentLine(e1, reverse) IN
         IF e2.ret THEN e2 ELSE TsFindNextStatement(e2, reverse, "")

\* The engine as the loop of Continue(reverse) finds it.
LoopEntry(reverse) ==
    IF impl = "ts" THEN Engine ELSE [Normalize(Engine, reverse) EXCEPT !.paused = FALSE]

LoopPass(e, reverse) ==
    CASE impl = "cs" -> ContinueIter(e, reverse)
      [] impl = "go" -> GoContinueIter(e, reverse)
      [] impl = "ts" -> TsContinueIter(e, reverse)

RECURSIVE Passes(_, _, _)
\* The passes of the loop from e, the n-th being the next: they stop at the
\* pass that returns, at a pass that does not move the cursor forward in the
\* direction of the call, and after one pass more than the source has lines.
Passes(e, reverse, n) ==
    LET e1 == LoopPass(e, reverse)
        moved == IF reverse THEN e1.currentLine < e.currentLine
                 ELSE e1.currentLine > e.currentLine
    IN  IF e1.ret \/ e1.raised
        THEN [returned |-> TRUE, count |-> n, out |-> e1.out, raised |-> e1.raised]
        ELSE IF ~moved \/ n > Len(e.sourceLines)
        THEN [returned |-> FALSE, count |-> n, out |-> e1.out, raised |-> FALSE]
        ELSE Passes(e1, reverse, n + 1)

\* The last event is a stop or the end event.
EndsWithStopOrEnd(evs) ==
    /\ evs # << >>
    /\ evs[Len(evs)].type \in {"stopped", "terminated"}

\* C33: on a loaded source a Continue that no Pause interferes with returns:
\* every pass of its loop either ends the call or moves currentLine forward
\* in the direction of the call, so the call returns within as many passes as
\* the source has lines, its last event being a stop or the end event.
C33_ContinueTerminates ==
    /\ (Called("Continue") /\ SourceLoaded /\ ~raised) => EndsWithStopOrEnd(events)
    /\ (SourceLoaded /\ InRange(sourceLines, currentLine)) =>
          \A reverse \in BOOLEAN :
              LET r == Passes(LoopEntry(reverse), reverse, 1) IN
              /\ r.returned
              /\ ~r.raised
              /\ r.count <= Len(sourceLines)
              /\ EndsWithStopOrEnd(r.out)
              /\ r.out = DoContinue(reverse).out

\* a forward Continue that returned with the end event after several passes
C33_Witness ==
    /\ Called("Continue")
    /\ lastOp.args[1] = FALSE
    /\ ~raised
    /\ Len(sourceLines) >= 4
    /\ Len(Outputs(events)) >= 2
    /\ events[Len(events)] = EndEv


\* C34: after every LoadSource the index describes the loaded lines: for
\* every line L, starts[L] <= ends[L], ends[L] - starts[L] is the number of
\* words of L, ends[L] <= starts[L + 1], and every instruction at an address
\* of [starts[L], ends[L]) carries line = L.
C34_IndexMatchesLines ==
    Called("LoadSource") =>
        /\ Len(starts) = Len(sourceLines)
        /\ Len(ends) = Len(sourceLines)
        /\ \A L \in 0..Len(sourceLines) - 1 :
             /\ At(starts, L) <= At(ends, L)
             /\ At(ends, L) - At(starts, L) = Len(GetWords(L, At(sourceLines, L)))
             /\ L + 1 < Len(sourceLines) => At(ends, L) <= At(starts, L + 1)
             /\ At(ends, L) <= Len(instructions)
             /\ \A a \in At(starts, L)..At(ends, L) - 1 : At(instructions, a).line = L

\* a load of the document whose second line has no word and whose third has
\* several
C34_Witness ==
    /\ Called("LoadSource")
    /\ ~raised
    /\ sourceFile = "/b/x.md"
    /\ Len(sourceLines) = 5
    /\ At(starts, 1) = At(ends, 1)
    /\ At(ends, 2) - At(starts, 2) >= 3


\* The fields of the engine.
EngineFields ==
    << sourceFile, sourceLines, currentLine, currentColumn, instructions, starts,
       ends, instruction, paused, bps, bpLists, bpKeys, nextBpId,
       instructionBreakpoints, breakAddresses, namedException, otherExceptions,
       variables, locals >>

\* C35: a stop never traps the cursor: a forward Continue that does not
\* reach the end of the source, and a forward Next made before the last
\* line, leaves the engine in another state than it found it in, so that
\* repeating the call does not repeat the same stop for ever.
C35_StopDoesNotTrap ==
    [][ ( /\ lastOp'.name \in {"Continue", "Next"}
          /\ hist'.tick # hist.tick
          /\ lastOp'.args[1] = FALSE
          /\ SourceLoaded
          /\ InRange(sourceLines, currentLine)
          /\ lastOp'.name = "Next" => currentLine < Len(sourceLines) - 1
          /\ ~raised'
          /\ \A i \in 1..Len(events') : events'[i].type # "terminated" )
        => ~UNCHANGED EngineFields ]_vars


\* C37: SetBreakpoints (setBreakPoint in TypeScript) changes the registry and
\* the id counter only: for any path, the path of the loaded source or
\* another, it leaves the loaded source, the instruction stream, currentLine,
\* currentColumn, the instruction pointer, the variable table and the data
\* and instruction breakpoints as they were.
C37_SetBreakpointsKeepsExecutionState ==
    [][ (lastOp'.name = "SetBreakpoints" /\ hist'.tick # hist.tick)
        => UNCHANGED << sourceFile, sourceLines, instructions, starts, ends,
                        currentLine, currentColumn, instruction, variables, locals,
                        breakAddresses, instructionBreakpoints >> ]_vars


\* Breakpoints of one path only, so that every other key of the registry is
\* one the engine added.
SetPath == "/b/x.md"
SetLineLists == {<< >>, << 1 >>, << 7 >>}

SetBreakpointsOfPathOp ==
    \E lines \in SetLineLists :
        /\ nextBpId + Len(lines) <= MaxRunBpId + 1
        /\ LET e == DoSetBreakpoints(SetPath, lines) IN
           Commit([e EXCEPT !.ret = IF e.raised \/ ~HasKey(e, SetPath) THEN << >>
                                    ELSE ListOf(e, SetPath)],
                  Op("SetBreakpoints", << SetPath, lines >>))

NextLatest ==
    \/ LoadSourceOp
    \/ SetBreakpointsOfPathOp
    \/ ContinueOp
    \/ NextOp

SpecLatest == Init /\ [][NextLatest]_vars

\* The lines of the breakpoints the registry holds for SetPath.
LatestLines ==
    LET l == BreakpointsOf(bps, bpLists, SetPath) IN {l[i].line : i \in 1..Len(l)}

\* C38: only the latest breakpoint set of a path is effective: after
\* SetBreakpoints(path, lines) the registry holds exactly these lines for the
\* path, and a Continue or Next on a source whose path or file name matches
\* stops with reason breakpoint only on a line of the latest set, whether
\* LoadSource came before or after; a removed breakpoint stops no call again.
C38_LatestSetIsEffective ==
    [][ /\ ( /\ lastOp'.name = "SetBreakpoints" /\ hist'.tick # hist.tick /\ ~raised' )
           => LET l == BreakpointsOf(bps', bpLists', SetPath) IN
              [i \in 1..Len(l) |-> l[i].line] = lastOp'.args[2]
        /\ ( /\ lastOp'.name \in {"Continue", "Next"} /\ hist'.tick # hist.tick
             /\ GetFileName(sourceFile) = GetFileName(SetPath) )
           => \A i \in 1..Len(events') :
                 (events'[i].type = "stopped" /\ events'[i].reason = "breakpoint")
                    => events'[i].line \subseteq LatestLines ]_vars


\* ------------------------------------------------- the adapter's proxy
\* RuntimeBase drives a host on standard input and output: what it writes
\* waits in outbox until the host reads it, what the host writes waits in
\* host.reply until onLine is called with it.
MaxProxyRequests == 2  \* the proxy makes no call of continue, step or pause once it has sent this many

QueryCommands == {"initialize", "getLocalVariables", "stackTrace"}

\* send(command, args): the request is written and its promise is pending;
\* then names what waits for the response.
ProxySendTo(p, req, then) ==
    [p EXCEPT !.outbox = Append(@, req), !.pending = Append(@, then)]

NoWait == [kind |-> "void"]

\* The name dispatchEvent emits for a stop of the given reason.
StopName(reason) ==
    CASE reason = "entry" -> "stopOnEntry"
      [] reason = "breakpoint" -> "stopOnBreakpoint"
      [] reason = "dataBreakpoint" -> "stopOnDataBreakpoint"
      [] reason = "instructionBreakpoint" -> "stopOnInstructionBreakpoint"
      [] reason = "step" -> "stopOnStep"
      [] reason = "exception" -> "stopOnException"
      [] reason = "pause" -> "stopOnStep"
      [] OTHER -> ""

\* this.emit(name) for the n-th event read
ProxyEmit(p, n, name) ==
    IF name = "" THEN p ELSE [p EXCEPT !.emitted = Append(@, [n |-> n, name |-> name])]

\* dispatchEvent(name, body) up to its first await; n numbers the event.
DispatchEvent(p, ev, n) ==
    CASE ev.type = "stopped" ->
            ProxySendTo(p, Op("getLocalVariables", << >>),
                        [kind |-> "locals", n |-> n, name |-> StopName(ev.reason),
                         line |-> ev.line])
      [] ev.type = "breakpointValidated" -> ProxyEmit(p, n, "breakpointValidated")
      [] ev.type = "variablesChanged" ->
            ProxyEmit(ProxySendTo(p, Op("getLocalVariables", << >>), NoWait),
                      n, "variablesChanged")
      [] ev.type = "output" -> ProxyEmit(p, n, "output")
      [] ev.type = "terminated" -> ProxyEmit(p, n, "end")
      [] OTHER -> p

\* onLine(jsonLine): a response settles the oldest pending promise, whose
\* continuation is queued; an event is dispatched.
OnLine(p, msg) ==
    IF msg.type = "response"
    THEN IF p.pending = << >> THEN p
         ELSE [p EXCEPT !.pending = Tail(@),
                        !.ready = Append(@, [then |-> Head(p.pending), ok |-> msg.success])]
    ELSE DispatchEvent([p EXCEPT !.received = @ + 1], msg, p.received + 1)

\* The continuation of an await, run once the promise is settled: start goes
\* on to launch and to the first refresh of the locals, the dispatch of a
\* stop goes on to stackTrace when the event carried no line and emits then.
Resume(p, r) ==
    CASE r.then.kind = "initialize" ->
            IF r.ok THEN ProxySendTo(p, r.then.launch, [kind |-> "launch"])
            ELSE [p EXCEPT !.phase = "failed"]
      [] r.then.kind = "launch" ->
            IF r.ok
            THEN ProxySendTo([p EXCEPT !.phase = "running"],
                             Op("getLocalVariables", << >>), NoWait)
            ELSE [p EXCEPT !.phase = "failed"]
      [] r.then.kind = "locals" ->
            IF r.then.line # {} THEN ProxyEmit(p, r.then.n, r.then.name)
            ELSE ProxySendTo(p, Op("stackTrace", << >>),
                             [kind |-> "stack", n |-> r.then.n, name |-> r.then.name])
      [] r.then.kind = "stack" -> ProxyEmit(p, r.then.n, r.then.name)
      [] OTHER -> p

\* A step of the proxy: host and engine are left alone.
ProxyStep(p) ==
    /\ host' = [host EXCEPT !.proxy = p]
    /\ EngineUnchanged

\* start(program, stopOnEntry, debug), up to its first await
ProxyStart ==
    \E program \in Programs, stopOnEntry \in BOOLEAN :
        /\ host.mode = "stdio"
        /\ host.proxy.phase = "new"
        /\ ProxyStep(ProxySendTo([host.proxy EXCEPT !.phase = "starting"],
                                 Op("initialize", << >>),
                                 [kind |-> "initialize",
                                  launch |-> Op("launch", << program, stopOnEntry >>)]))

\* The calls the adapter makes once start returned.
ProxyCall(req) ==
    /\ host.mode = "stdio"
    /\ host.proxy.phase = "running"
    /\ host.proxy.sent < MaxProxyRequests
    /\ ProxyStep(ProxySendTo([host.proxy EXCEPT !.sent = @ + 1], req, NoWait))

\* continue(reverse)
ProxyContinue ==
    \E reverse \in BOOLEAN :
        /\ MayStart
        /\ host.request.name = ""
        /\ host.proxy.outbox = << >>
        /\ ProxyCall(Op("continue", << reverse >>))

\* step(instruction, reverse)
ProxyNext == ProxyCall(Op("next", << FALSE >>))

\* pause()
ProxyPause == ProxyCall(Op("pause", << >>))

\* The host reads the next request the proxy wrote.
HostRead ==
    /\ HostRuns
    /\ host.connected
    /\ host.request.name = ""
    /\ host.proxy.outbox # << >>
    /\ host' = [host EXCEPT !.request = Head(host.proxy.outbox), !.proxy.outbox = Tail(@)]
    /\ EngineUnchanged

\* The dispatcher handles a request that drives the engine.
HandleCommand ==
    /\ host.request.name \notin QueryCommands
    /\ Handle

\* The dispatcher answers initialize, getLocalVariables or stackTrace: a
\* response, no event, the engine as it was.
HandleQuery ==
    /\ HostRuns
    /\ host.connected
    /\ host.request.name \in QueryCommands
    /\ HostStep(Respond(Engine, OkMsg), host.request, host, << >>, FALSE, TRUE)

RECURSIVE OnLines(_, _, _)
\* The while loop of the data listener: onLine for the lines i.. of a chunk.
OnLines(p, chunk, i) ==
    IF i > Len(chunk) THEN p ELSE OnLines(OnLine(p, chunk[i]), chunk, i + 1)

RECURSIVE Drain(_)
\* The event loop runs the queued continuations, oldest first, once the
\* listener returned.
Drain(p) ==
    IF p.ready = << >> THEN p
    ELSE Drain(Resume([p EXCEPT !.ready = Tail(@)], Head(p.ready)))

\* The proxy is handed a chunk of what the host wrote: some of the lines
\* that wait, or all.  The listener dispatches every line of the chunk
\* before a continuation runs.
ProxyData ==
    \E k \in 1..Len(host.reply) :
        /\ host' = [host EXCEPT !.reply = SubSeq(@, k + 1, Len(@)),
                                !.proxy = Drain(OnLines(host.proxy, SubSeq(host.reply, 1, k), 1))]
        /\ EngineUnchanged

NextProxy ==
    \/ StartStdio
    \/ ProxyStart
    \/ ProxyContinue
    \/ ProxyNext
    \/ ProxyPause
    \/ HostRead
    \/ HandleCommand
    \/ HandleQuery
    \/ ProxyData
    \/ GoContinueStart
    \/ GoContinueStep
    \/ TsImmediate

SpecProxy == Init /\ [][NextProxy]_vars

\* C39: the proxy re-emits the events of the runtime in the order the
\* runtime sent them: of two events it emitted, the one the runtime sent
\* first was emitted first.
C39_EventsKeepOrder ==
    \A i, j \in 1..Len(host.proxy.emitted) :
        i < j => host.proxy.emitted[i].n < host.proxy.emitted[j].n


\* ------------------------------------------ breakpoints through the proxy
\* The lines of a cache entry without the given one (Set.delete).
RECURSIVE WithoutLine(_, _)
WithoutLine(lines, line) ==
    IF lines = << >> THEN << >>
    ELSE IF Head(lines) = line THEN WithoutLine(Tail(lines), line)
    ELSE << Head(lines) >> \o WithoutLine(Tail(lines), line)

\* Set.add: the lines in insertion order
WithLine(lines, line) ==
    IF \E i \in 1..Len(lines) : lines[i] = line THEN lines ELSE Append(lines, line)

\* body.breakpoints.find(b => Number(b.line) === line): the ids of the
\* matches, first to last
MatchIds(list, line) ==
    LET m == SelectSeq(list, LAMBDA b : b.line = line) IN [i \in 1..Len(m) |-> m[i].id]

\* The host's answer to setBreakpoints {path, lines}: the engine after the
\* request, ret being the breakpoints of the response.
AnswerSetBreakpoints(path, lines) ==
    LET e == DoSetBreakpoints(path, lines) IN
    [e EXCEPT !.ret = IF e.raised \/ ~HasKey(e, path) THEN << >> ELSE ListOf(e, path)]

\* setBreakPoint(path, line), the host answering before the next call: the
\* line joins the cache, the whole cache entry is sent, and the id of the
\* response's breakpoint on the line is returned.
ProxySetBreakPoint ==
    \E path \in BpPaths, line \in BpLines :
        LET set == WithLine(host.proxy.breakpoints[path], line)
            e == AnswerSetBreakpoints(path, set)
            ids == MatchIds(e.ret, line)
            kept == SelectSeq(host.proxy.ids[path], LAMBDA r : r.line # line)
        IN  /\ nextBpId + Len(set) <= MaxBpId + 1
            /\ Store(e, Op("setBreakPoint", << path, line >>))
            /\ host' = [host EXCEPT
                          !.proxy.breakpoints[path] = set,
                          !.proxy.ids[path] =
                              IF e.raised \/ ids = << >> THEN kept
                              ELSE Append(kept, [line |-> line, id |-> ids[1]])]
            /\ UNCHANGED peers

\* clearBreakPoint(path, line): the line leaves the cache and what is left
\* of the entry is sent; nothing is sent without an entry.
ProxyClearBreakPoint ==
    \E path \in BpPaths, line \in BpLines :
        LET set == WithoutLine(host.proxy.breakpoints[path], line)
            e == AnswerSetBreakpoints(path, set)
        IN  /\ host.proxy.breakpoints[path] # << >>
            /\ nextBpId + Len(set) <= MaxBpId + 1
            /\ Store(e, Op("clearBreakPoint", << path, line >>))
            /\ host' = [host EXCEPT
                          !.proxy.breakpoints[path] = set,
                          !.proxy.ids[path] = SelectSeq(@, LAMBDA r : r.line # line)]
            /\ UNCHANGED peers

NextProxyBp ==
    \/ LoadSourceOp
    \/ ProxySetBreakPoint
    \/ ProxyClearBreakPoint

SpecProxyBp == Init /\ [][NextProxyBp]_vars

\* C40: the id setBreakPoint(path, line) returned identifies the runtime's
\* breakpoint on the line for as long as the line stays set: setting or
\* clearing other lines of the path does not change it.
C40_ReturnedIdStaysValid ==
    \A path \in BpPaths :
        \A i \in 1..Len(host.proxy.ids[path]) :
            LET r == host.proxy.ids[path][i]
                list == BreakpointsOf(bps, bpLists, path)
            IN  \E k \in 1..Len(list) : list[k].line = r.line /\ list[k].id = r.id

====
